---- MODULE Spec2Model ----
(***************************************************************************)
(* Chat with Page: the routing / hybrid-escalation / model-fallback engine *)
(* of src/src/content/content.js, as a state machine.                      *)
(*                                                                         *)
(* One popup context is modelled: its global variables, the session        *)
(* storage that outlives it, the asynchronous handlers that run in it      *)
(* (processPageContent, handleSend, the fetch interceptor and its timer,   *)
(* the switch prompt's two buttons) and the user and provider events that  *)
(* drive them.  An action is the run of a handler between two awaits.      *)
(***************************************************************************)
EXTENDS Integers, Sequences, FiniteSets, TLC

(***************************************************************************)
(* Bounds of the model                                                     *)
(***************************************************************************)
\* document lengths are taken within Margin characters of each threshold
Margin == 2
\* handleSend invocations in one popup context
MaxSends == 2
\* the popup is reopened at most this often
MaxReopens == 1
\* the clock advances in ticks of TickMs milliseconds, MaxTicks times at most
TickMs == 1000
MaxTicks == 4
\* the text splitter cuts a document into this many chunks
NChunks == 2

(***************************************************************************)
(* Program constants                                                       *)
(***************************************************************************)
\* const RATE_LIMIT_COOLDOWN = 3000
RATE_LIMIT_COOLDOWN == 3000
\* setTimeout(..., 100) of the fetch interceptor
PROMPT_DELAY == 100
\* setTimeout(resolve, 500) before the resubmission
RETRY_DELAY == 500
\* estimatedTokens < 10000 / 20000 / 30000
DIRECT_LIMIT == 10000
COMPACT_LIMIT == 20000
HYBRID_LIMIT == 30000
\* estimatedTokens = markdown.length / 4
CHARS_PER_TOKEN == 4
\* chatHistory.slice(-20)
HISTORY_LIMIT == 20

\* null: of a string-valued variable, and of an object-valued one
Null == "null"
NullObj == [null |-> TRUE]

\* MODEL_FALLBACK_CHAIN, indexed from 0 as in the source
MODEL_FALLBACK_CHAIN ==
  [i \in 0..3 |-> CASE i = 0 -> "gemini-2.5-flash-lite"
                    [] i = 1 -> "gemini-2.5-flash"
                    [] i = 2 -> "gemini-2.0-flash-lite"
                    [] i = 3 -> "gemini-2.0-flash"]

ChainLength == Cardinality(DOMAIN MODEL_FALLBACK_CHAIN)

Tabs == {"t1", "t2"}
Urls == {"u1", "u2"}

\* the lengths (in characters) of the documents the model opens: around every
\* routing threshold, plus a short and a very long one
Around(n) == (n - Margin)..(n + Margin)

RouteDocLengths ==
  {0, 1} \cup Around(CHARS_PER_TOKEN * DIRECT_LIMIT)
         \cup Around(CHARS_PER_TOKEN * COMPACT_LIMIT)
         \cup Around(CHARS_PER_TOKEN * HYBRID_LIMIT)
         \cup {CHARS_PER_TOKEN * HYBRID_LIMIT * 2}

\* the lengths of the documents a reopened popup finds: one in each bucket
ReopenDocLengths ==
  {(CHARS_PER_TOKEN * DIRECT_LIMIT) \div 2,
   (CHARS_PER_TOKEN * (DIRECT_LIMIT + COMPACT_LIMIT)) \div 2,
   (CHARS_PER_TOKEN * (COMPACT_LIMIT + HYBRID_LIMIT)) \div 2,
   CHARS_PER_TOKEN * HYBRID_LIMIT * 2}

VARIABLES
  \* ---- the popup context's globals (content.js 727-755)
  pageContent,        \* NullObj, or [len]: the length of pageContent.text
  currentTabId,
  currentPageUrl,
  chain,              \* NullObj, or [prompt, model]: the system prompt and model index
  documentSummary,    \* Null, "" (an empty response), or a summary text
  vectorStore,        \* NullObj, or [docLen, chunks, embeddings]: the index built
                      \* from the document of that length
  isLongDocument,
  useSummaryMode,
  useHybridMode,
  modeBadge,          \* updateModeBadge
  chatHistory,        \* sequence of [role, content]
  currentModelIndex,
  lastFailedQuestion,
  isHandlingRateLimit,
  rateLimitPromptShown,
  activeRequestId,    \* Null, or the identifier the running handleSend call made
  lastRateLimitTime,
  \* ---- the page (DOM) and the event loop
  sendBtnDisabled,    \* sendBtn.disabled
  lastUserMessage,    \* text of the last '.message.user' element, Null if none
  prompts,            \* switch prompts displayed (model-switch-prompt elements)
  timers,             \* due times of the interceptor's pending setTimeout callbacks
  switches,           \* the running click handlers of Switch buttons
  sends,              \* the handleSend calls of this context, in start order
  finals,             \* 'All Models Rate Limited' messages displayed
  errorShown,         \* Null, or the kind of the last error message handleSend's
                      \* catch block has added to the page
  now,                \* Date.now()
  ticks,
  \* ---- processPageContent in progress
  ppc,                \* its position
  bucket,             \* the branch taken: "A", "B", "C", "D", "hit", "none"
  sumTask,            \* generateSummary: "idle", "running", or how it ended
  ragTask,            \* setupRAGPipeline: "idle", "running", or how it ended
  summarySize,        \* targetSize of the last generateSummary call
  nSummaryCalls,      \* model.invoke calls of generateSummary in this context
  nIndexBuilds,       \* setupRAGPipeline runs in this context
  embedCalls,         \* how the embedQuery calls of a build ended, per chunk,
                      \* until processPageContent resumes after the build
  retrieved,          \* NullObj, or the last retrieveRelevantChunks call: its
                      \* arguments, the query's embedding and the chunks returned
  \* ---- chrome.storage.session
  cacheStore,         \* [cache keys -> NullObj or the cacheData]
  reopens,
  \* ---- chrome.tabs
  openTabs,           \* the tabs that have not been closed
  \* ---- history variables (read by the properties only)
  lastCall,           \* NullObj, or the last call of a function that is followed
                      \* on its own: its name, its arguments and how it ended
  honoredAt           \* Date.now() at the last honored detection, 0 before the first

docVars   == <<pageContent, currentTabId, currentPageUrl>>
modeVars  == <<chain, documentSummary, vectorStore, isLongDocument, useSummaryMode,
               useHybridMode, modeBadge>>
procVars  == <<ppc, bucket, sumTask, ragTask, summarySize, nSummaryCalls, nIndexBuilds,
               embedCalls>>
rateVars  == <<isHandlingRateLimit, lastRateLimitTime, timers, honoredAt>>
limitVars == <<currentModelIndex, lastFailedQuestion, rateLimitPromptShown,
               activeRequestId>>
pageVars  == <<sendBtnDisabled, lastUserMessage, prompts, finals, errorShown>>
timeVars  == <<now, ticks>>

vars == <<docVars, modeVars, procVars, rateVars, limitVars, pageVars, timeVars,
          chatHistory, switches, sends, cacheStore, reopens, retrieved, openTabs, lastCall>>

(***************************************************************************)
(* Model fallback chain (content.js 757-768)                               *)
(***************************************************************************)
getCurrentModel == MODEL_FALLBACK_CHAIN[currentModelIndex]

\* getNextModel(): the name of the next model, Null at the end of the chain
getNextModel ==
  IF currentModelIndex < ChainLength - 1
  THEN MODEL_FALLBACK_CHAIN[currentModelIndex + 1]
  ELSE Null

(***************************************************************************)
(* Router (content.js 1265, 1334-1444)                                     *)
(***************************************************************************)
\* a comparison that puts a threshold in the lower bucket
EstimatedTokensAtMost(len, n) == len <= CHARS_PER_TOKEN * n

\* estimatedTokens < n, for estimatedTokens = markdown.length / 4 (a real number)
EstimatedTokensBelow(len, n) == len < CHARS_PER_TOKEN * n

\* a router without the branch of the short documents
ColdBranchWithoutDirect(len) ==
  IF EstimatedTokensBelow(len, COMPACT_LIMIT) THEN "B"
  ELSE IF EstimatedTokensBelow(len, HYBRID_LIMIT) THEN "C"
  ELSE "D"

\* the cold-path branch of processPageContent
ColdBranch(len) ==
  IF EstimatedTokensBelow(len, DIRECT_LIMIT) THEN "A"
  ELSE IF EstimatedTokensBelow(len, COMPACT_LIMIT) THEN "B"
  ELSE IF EstimatedTokensBelow(len, HYBRID_LIMIT) THEN "C"
  ELSE "D"

\* a JavaScript truthiness test of a string-or-null value
Truthy(v) == v # Null /\ v # ""

\* the branch of handleSend a question takes (content.js 2040, 2139, 2168, 2202)
SendBranch ==
  IF useHybridMode /\ Truthy(documentSummary) /\ vectorStore # NullObj THEN "hybrid"
  ELSE IF useSummaryMode /\ Truthy(documentSummary) THEN "summary"
  ELSE IF isLongDocument /\ vectorStore # NullObj THEN "rag"
  ELSE "direct"

\* initLangChainStuffing / Summary / Hybrid / RAG: the chain they build
initLangChain(prompt) == [prompt |-> prompt, model |-> currentModelIndex]

(***************************************************************************)
(* Processing cache (content.js 1162-1206)                                 *)
(***************************************************************************)
\* a key of one slot per tab, which a new URL overwrites
CacheKeyOfSession(tabId, url) == "processing_" \o tabId \o "_current"

\* a key that leaves the URL out
CacheKeyOfTab(tabId, url) == "processing_" \o tabId

\* const cacheKey = `processing_${tabId}_${url}`
CacheKey(tabId, url) == "processing_" \o tabId \o "_" \o url

CacheData(summary, vs, url) == [summary |-> summary, vectorStore |-> vs, url |-> url]

saveProcessingCache(store, tabId, url, summary, vs) ==
  IF tabId = Null \/ url = Null THEN store
  ELSE [store EXCEPT ![CacheKey(tabId, url)] = CacheData(summary, vs, url)]

\* a load that finds nothing
loadNothing(store, tabId, url) == NullObj

loadProcessingCache(store, tabId, url) ==
  IF tabId = Null \/ url = Null THEN NullObj
  ELSE IF store[CacheKey(tabId, url)] # NullObj /\ store[CacheKey(tabId, url)].url = url
       THEN store[CacheKey(tabId, url)]
       ELSE NullObj

(***************************************************************************)
(* Conversation history in the session storage (content.js 1076-1116)      *)
(***************************************************************************)
\* const key = `chatHistory_${tabId}`
HistoryKey(tabId) == "chatHistory_" \o tabId

\* every key of the two families
SessionKeys ==
  {HistoryKey(t) : t \in Tabs} \cup {CacheKey(t, u) : t \in Tabs, u \in Urls}

\* saveChatHistory: the serialized messages under the tab's key
saveChatHistory(store, tabId, history) ==
  IF tabId = Null THEN store
  ELSE [store EXCEPT ![HistoryKey(tabId)] = [messages |-> history]]

(***************************************************************************)
(* The fetch interceptor (content.js 939-1023)                             *)
(***************************************************************************)
\* GUARD 1: an active request exists
GuardActive == activeRequestId # Null

\* GUARD 2: the cooldown has elapsed
GuardCooldown == now - lastRateLimitTime >= RATE_LIMIT_COOLDOWN

\* GUARD 3: no detection is being handled
GuardNotHandling == ~isHandlingRateLimit

\* a detector with the first guard only
HonoredWhileActive(status) == status = "429" /\ GuardActive

\* a response with this status is honored as a new rate-limit detection
Honored(status) ==
  status = "429" /\ GuardActive /\ GuardCooldown /\ GuardNotHandling

\* window.fetch, after the response has arrived
Intercept(status) ==
  IF Honored(status)
  THEN /\ lastRateLimitTime' = now
       /\ isHandlingRateLimit' = TRUE
       /\ timers' = Append(timers, now + PROMPT_DELAY)
       /\ honoredAt' = now
  ELSE UNCHANGED rateVars


(***************************************************************************)
(* What the provider can answer                                            *)
(***************************************************************************)
\* response.content of the summary call
SummaryTexts == {"s1", "s2"}
\* how generateSummary's model.invoke ends: a text, an empty text, or an error
SummaryOutcomes == {"ok", "empty", "429", "error"}
\* how setupRAGPipeline's embedding calls end
IndexOutcomes == {"ok", "429", "error"}
\* HTTP status of a setup call, as the fetch interceptor sees it
StatusOf(outcome) ==
  IF outcome = "429" THEN "429" ELSE IF outcome = "error" THEN "503" ELSE "200"
\* HTTP status of the response to a call made for a question
Statuses == {"200", "429", "503"}
\* the question the user types for the k-th handleSend call of the context:
\* a new one each time
Question(k) == "q" \o ToString(k)

\* a task (a promise) has settled
Ended(task) == task \notin {"idle", "running"}


(***************************************************************************)
(* Construction: the state of a freshly opened popup (content.js 727-755), *)
(* after loadPageContent has stored the page's text and URL                *)
(***************************************************************************)
Fresh(tab, url, len) ==
  [pageContent |-> (IF len = 0 THEN NullObj ELSE [len |-> len]),
   currentTabId |-> tab,
   currentPageUrl |-> (IF len = 0 THEN Null ELSE url),
   chain |-> NullObj,
   documentSummary |-> Null,
   vectorStore |-> NullObj,
   isLongDocument |-> FALSE,
   useSummaryMode |-> FALSE,
   useHybridMode |-> FALSE,
   modeBadge |-> "auto",
   chatHistory |-> <<>>,
   currentModelIndex |-> 0,
   lastFailedQuestion |-> Null,
   isHandlingRateLimit |-> FALSE,
   rateLimitPromptShown |-> FALSE,
   activeRequestId |-> Null,
   lastRateLimitTime |-> 0,
   sendBtnDisabled |-> FALSE,
   lastUserMessage |-> Null,
   prompts |-> 0,
   finals |-> 0,
   errorShown |-> Null,
   honoredAt |-> 0,
   timers |-> <<>>,
   switches |-> <<>>,
   sends |-> <<>>,
   ppc |-> "start",
   bucket |-> "none",
   sumTask |-> "idle",
   ragTask |-> "idle",
   summarySize |-> "none",
   nSummaryCalls |-> 0,
   nIndexBuilds |-> 0,
   embedCalls |-> <<>>,
   retrieved |-> NullObj]

\* the context's variables take these values: now, and in the next state
IsFresh(f) ==
  /\ pageContent = f.pageContent
  /\ currentTabId = f.currentTabId
  /\ currentPageUrl = f.currentPageUrl
  /\ chain = f.chain
  /\ documentSummary = f.documentSummary
  /\ vectorStore = f.vectorStore
  /\ isLongDocument = f.isLongDocument
  /\ useSummaryMode = f.useSummaryMode
  /\ useHybridMode = f.useHybridMode
  /\ modeBadge = f.modeBadge
  /\ chatHistory = f.chatHistory
  /\ currentModelIndex = f.currentModelIndex
  /\ lastFailedQuestion = f.lastFailedQuestion
  /\ isHandlingRateLimit = f.isHandlingRateLimit
  /\ rateLimitPromptShown = f.rateLimitPromptShown
  /\ activeRequestId = f.activeRequestId
  /\ lastRateLimitTime = f.lastRateLimitTime
  /\ sendBtnDisabled = f.sendBtnDisabled
  /\ lastUserMessage = f.lastUserMessage
  /\ prompts = f.prompts
  /\ finals = f.finals
  /\ errorShown = f.errorShown
  /\ honoredAt = f.honoredAt
  /\ timers = f.timers
  /\ switches = f.switches
  /\ sends = f.sends
  /\ ppc = f.ppc
  /\ bucket = f.bucket
  /\ sumTask = f.sumTask
  /\ ragTask = f.ragTask
  /\ summarySize = f.summarySize
  /\ nSummaryCalls = f.nSummaryCalls
  /\ nIndexBuilds = f.nIndexBuilds
  /\ embedCalls = f.embedCalls
  /\ retrieved = f.retrieved

BecomesFresh(f) ==
  /\ pageContent' = f.pageContent
  /\ currentTabId' = f.currentTabId
  /\ currentPageUrl' = f.currentPageUrl
  /\ chain' = f.chain
  /\ documentSummary' = f.documentSummary
  /\ vectorStore' = f.vectorStore
  /\ isLongDocument' = f.isLongDocument
  /\ useSummaryMode' = f.useSummaryMode
  /\ useHybridMode' = f.useHybridMode
  /\ modeBadge' = f.modeBadge
  /\ chatHistory' = f.chatHistory
  /\ currentModelIndex' = f.currentModelIndex
  /\ lastFailedQuestion' = f.lastFailedQuestion
  /\ isHandlingRateLimit' = f.isHandlingRateLimit
  /\ rateLimitPromptShown' = f.rateLimitPromptShown
  /\ activeRequestId' = f.activeRequestId
  /\ lastRateLimitTime' = f.lastRateLimitTime
  /\ sendBtnDisabled' = f.sendBtnDisabled
  /\ lastUserMessage' = f.lastUserMessage
  /\ prompts' = f.prompts
  /\ finals' = f.finals
  /\ errorShown' = f.errorShown
  /\ honoredAt' = f.honoredAt
  /\ timers' = f.timers
  /\ switches' = f.switches
  /\ sends' = f.sends
  /\ ppc' = f.ppc
  /\ bucket' = f.bucket
  /\ sumTask' = f.sumTask
  /\ ragTask' = f.ragTask
  /\ summarySize' = f.summarySize
  /\ nSummaryCalls' = f.nSummaryCalls
  /\ nIndexBuilds' = f.nIndexBuilds
  /\ embedCalls' = f.embedCalls
  /\ retrieved' = f.retrieved

(***************************************************************************)
(* processPageContent (content.js 1258-1473)                               *)
(***************************************************************************)
\* a restoration that looks at the cached entry only
RestoreFromEntry(len, summary, vs) ==
  IF Truthy(summary) /\ vs # NullObj
  THEN [long |-> FALSE, hybrid |-> TRUE, badge |-> "hybrid"]
  ELSE IF vs # NullObj
  THEN [long |-> TRUE, hybrid |-> FALSE, badge |-> "rag"]
  ELSE [long |-> FALSE, hybrid |-> FALSE, badge |-> "stuffing"]

\* the mode flags and chain of a cache hit (content.js 1295-1323)
RestoreMode(len, summary, vs) ==
  IF EstimatedTokensBelow(len, DIRECT_LIMIT)
  THEN [long |-> FALSE, hybrid |-> FALSE, badge |-> "stuffing"]
  ELSE IF Truthy(summary) /\ vs # NullObj
  THEN [long |-> FALSE, hybrid |-> TRUE, badge |-> "hybrid"]
  ELSE IF vs # NullObj
  THEN [long |-> TRUE, hybrid |-> FALSE, badge |-> "rag"]
  ELSE [long |-> FALSE, hybrid |-> FALSE, badge |-> "stuffing"]

\* the model generateSummary builds for its call (content.js 1485-1489)
SummaryModel == "gemini-2.5-flash"

\* targetSize of the generateSummary call of a Hybrid bucket
TargetSize(b) == IF b = "B" THEN "compact" ELSE "standard"

\* entry to the first await on a provider call: cache lookup, then the branch
ProcessStart ==
  /\ ppc = "start"
  /\ UNCHANGED <<docVars, retrieved, openTabs, lastCall, rateVars, limitVars, pageVars, timeVars, chatHistory,
                 switches, sends, cacheStore, reopens, embedCalls>>
  /\ IF pageContent = NullObj
     THEN /\ ppc' = "done"
          /\ UNCHANGED <<modeVars, bucket, sumTask, ragTask, summarySize,
                         nSummaryCalls, nIndexBuilds>>
     ELSE LET len    == pageContent.len
              cached == loadProcessingCache(cacheStore, currentTabId, currentPageUrl)
          IN IF cached # NullObj /\ cached.vectorStore # NullObj
             THEN LET summary == IF Truthy(cached.summary) THEN cached.summary ELSE Null
                      m == RestoreMode(len, summary, cached.vectorStore)
                  IN /\ documentSummary' = summary
                     /\ vectorStore' = cached.vectorStore
                     /\ isLongDocument' = m.long
                     /\ useSummaryMode' = FALSE
                     /\ useHybridMode' = m.hybrid
                     /\ modeBadge' = m.badge
                     /\ chain' = initLangChain(m.badge)
                     /\ ppc' = "done"
                     /\ bucket' = "hit"
                     /\ UNCHANGED <<sumTask, ragTask, summarySize, nSummaryCalls,
                                    nIndexBuilds>>
             ELSE LET b == ColdBranch(len)
                  IN /\ bucket' = b
                     /\ useSummaryMode' = FALSE
                     /\ CASE b = "A" ->
                               /\ isLongDocument' = FALSE
                               /\ useHybridMode' = FALSE
                               /\ vectorStore' = NullObj
                               /\ documentSummary' = Null
                               /\ modeBadge' = "stuffing"
                               /\ chain' = initLangChain("stuffing")
                               /\ ppc' = "done"
                               /\ UNCHANGED <<sumTask, ragTask, summarySize,
                                              nSummaryCalls, nIndexBuilds>>
                          [] b \in {"B", "C"} ->
                               /\ isLongDocument' = FALSE
                               /\ useHybridMode' = TRUE
                               /\ sumTask' = "running"
                               /\ summarySize' = TargetSize(b)
                               /\ nSummaryCalls' = nSummaryCalls + 1
                               /\ ragTask' = "running"
                               /\ nIndexBuilds' = nIndexBuilds + 1
                               /\ ppc' = "join"
                               /\ UNCHANGED <<vectorStore, documentSummary, modeBadge,
                                              chain>>
                          [] b = "D" ->
                               /\ isLongDocument' = TRUE
                               /\ useHybridMode' = FALSE
                               /\ documentSummary' = Null
                               /\ modeBadge' = "rag"
                               /\ ragTask' = "running"
                               /\ nIndexBuilds' = nIndexBuilds + 1
                               /\ ppc' = "index"
                               /\ UNCHANGED <<vectorStore, chain, sumTask, summarySize,
                                              nSummaryCalls>>

\* generateSummary resumes after model.invoke (content.js 1534-1545)
SummaryFinish(outcome, text) ==
  /\ sumTask = "running"
  /\ sumTask' = outcome
  /\ Intercept(StatusOf(outcome))
  /\ IF outcome \in {"ok", "empty"}
     THEN /\ documentSummary' = (IF outcome = "ok" THEN text ELSE "")
          /\ UNCHANGED useSummaryMode
     ELSE /\ useSummaryMode' = FALSE
          /\ documentSummary' = Null
  /\ UNCHANGED <<docVars, retrieved, openTabs, lastCall, chain, vectorStore, isLongDocument, useHybridMode, modeBadge,
                 ppc, bucket, ragTask, summarySize, nSummaryCalls, nIndexBuilds,
                 limitVars, pageVars, timeVars, chatHistory, switches, sends,
                 cacheStore, reopens, embedCalls>>

\* an embedding as the index stores it: an array of numbers
Vector(v) == [kind |-> "array", values |-> v]

\* const chunks = docs.map(doc => doc.pageContent)
ChunkTexts == [i \in 1..NChunks |-> "c" \o ToString(i)]

\* the vector the embedder answers for a chunk of the page
ChunkVector == Vector(<<1, 0>>)

\* vectorStore = { chunks, embeddings, embedder }
BuiltStore(len) ==
  [docLen |-> len, chunks |-> ChunkTexts,
   embeddings |-> [i \in 1..NChunks |-> ChunkVector]]

\* every call ends the same way
UniformCalls(o) == [i \in 1..NChunks |-> o]
\* how the embedQuery calls of one build end, chunk by chunk: all alike, or
\* one call alone fails
EmbedCalls ==
  {UniformCalls(o) : o \in IndexOutcomes}
    \cup {[UniformCalls("ok") EXCEPT ![i] = o] : i \in 1..NChunks,
                                                 o \in IndexOutcomes \ {"ok"}}

\* await Promise.all(...): fulfilled when every call is fulfilled, rejected
\* with a rejection of one of the calls otherwise
PromiseAll(calls) ==
  IF \A i \in DOMAIN calls : calls[i] = "ok" THEN "ok"
  ELSE calls[CHOOSE i \in DOMAIN calls :
               calls[i] # "ok" /\ \A j \in 1..(i - 1) : calls[j] = "ok"]

\* the status the fetch interceptor looks for among the responses of a build
BuildStatus(calls) ==
  IF \E i \in DOMAIN calls : calls[i] = "429" THEN "429"
  ELSE StatusOf(PromiseAll(calls))

\* setupRAGPipeline resumes after its embedding calls (content.js 1663-1680)
IndexFinish(calls) ==
  /\ ragTask = "running"
  /\ ragTask' = PromiseAll(calls)
  /\ embedCalls' = calls
  /\ Intercept(BuildStatus(calls))
  /\ IF PromiseAll(calls) = "ok"
     THEN /\ vectorStore' = BuiltStore(pageContent.len)
          /\ UNCHANGED isLongDocument
     ELSE /\ isLongDocument' = FALSE
          /\ vectorStore' = NullObj
  /\ UNCHANGED <<docVars, retrieved, openTabs, lastCall, chain, documentSummary, useSummaryMode, useHybridMode,
                 modeBadge, ppc, bucket, sumTask, summarySize, nSummaryCalls,
                 nIndexBuilds, limitVars, pageVars, timeVars, chatHistory, switches,
                 sends, cacheStore, reopens>>

\* a test of the index alone
IndexBuilt == vectorStore # NullObj

\* if (documentSummary && vectorStore) (content.js 1369, 1411)
BothBuilt == Truthy(documentSummary) /\ vectorStore # NullObj

\* after Promise.all of a Hybrid bucket (content.js 1367-1391, 1409-1442)
ProcessJoin ==
  /\ ppc = "join"
  /\ Ended(sumTask)
  /\ Ended(ragTask)
  /\ UNCHANGED <<docVars, retrieved, openTabs, lastCall, documentSummary, vectorStore, isLongDocument, useSummaryMode,
                 sumTask, summarySize, nSummaryCalls, bucket, rateVars, limitVars,
                 pageVars, timeVars, chatHistory, switches, sends, reopens>>
  /\ embedCalls' = <<>>
  /\ IF BothBuilt
     THEN /\ modeBadge' = "hybrid"
          /\ chain' = initLangChain("hybrid")
          /\ cacheStore' = saveProcessingCache(cacheStore, currentTabId, currentPageUrl,
                                               documentSummary, vectorStore)
          /\ ppc' = "done"
          /\ UNCHANGED <<useHybridMode, ragTask, nIndexBuilds>>
     ELSE IF bucket = "B"
     THEN /\ useHybridMode' = FALSE
          /\ modeBadge' = "stuffing"
          /\ chain' = initLangChain("stuffing")
          /\ ppc' = "done"
          /\ UNCHANGED <<cacheStore, ragTask, nIndexBuilds>>
     ELSE /\ useHybridMode' = FALSE
          /\ modeBadge' = "rag"
          /\ ragTask' = "running"
          /\ nIndexBuilds' = nIndexBuilds + 1
          /\ ppc' = "index"
          /\ UNCHANGED <<chain, cacheStore>>

\* a save whatever the build gave
AnyOutcome == TRUE

\* if (vectorStore), before the retrieval-only entry is saved (content.js 1433,
\* 1462)
HasIndex == vectorStore # NullObj

\* after the awaited setupRAGPipeline of path D, or of path C's fallback
\* (content.js 1429-1441, 1456-1471)
ProcessIndexed ==
  /\ ppc = "index"
  /\ Ended(ragTask)
  /\ chain' = initLangChain("rag")
  /\ cacheStore' = (IF HasIndex
                    THEN saveProcessingCache(cacheStore, currentTabId, currentPageUrl,
                                             Null, vectorStore)
                    ELSE cacheStore)
  /\ ppc' = "done"
  /\ UNCHANGED <<docVars, retrieved, openTabs, lastCall, documentSummary, vectorStore, isLongDocument, useSummaryMode,
                 useHybridMode, modeBadge, bucket, sumTask, ragTask, summarySize,
                 nSummaryCalls, nIndexBuilds, rateVars, limitVars, pageVars, timeVars,
                 chatHistory, switches, sends, reopens>>
  /\ embedCalls' = <<>>

\* the length of the document now open, if any: the page as it was
SameDocLength == IF pageContent = NullObj THEN {} ELSE {pageContent.len}

\* the popup is closed and opened again, on the same or another page: a new
\* context, the session storage kept
Reopen(lengths) ==
  /\ reopens < MaxReopens
  /\ reopens' = reopens + 1
  /\ \E tab \in Tabs, url \in Urls, len \in lengths : BecomesFresh(Fresh(tab, url, len))
  /\ UNCHANGED <<cacheStore, timeVars, openTabs, lastCall>>


(***************************************************************************)
(* handleSend (content.js 2001-2325)                                       *)
(***************************************************************************)
\* the identifier handleSend makes for its request: unique per call
ReqId(i) == "r" \o ToString(i)

\* the calls that have started and not yet run their finally block
InFlight == {i \in DOMAIN sends : sends[i].pc # "done"}

\* a truncation that keeps the oldest messages
TruncateOldest(h) ==
  IF Len(h) > HISTORY_LIMIT THEN SubSeq(h, 1, HISTORY_LIMIT) ELSE h

\* chatHistory.slice(-20) when longer than 20
TruncateHistory(h) ==
  IF Len(h) > HISTORY_LIMIT THEN SubSeq(h, Len(h) - HISTORY_LIMIT + 1, Len(h)) ELSE h

\* chatHistory.push(HumanMessage), push(AIMessage), then the truncation
PushExchange(h, q, answer) ==
  TruncateHistory(h \o <<[role |-> "human", content |-> q],
                         [role |-> "ai", content |-> answer]>>)

\* what a completion call can stream back at each stage
StageTexts(stage) ==
  IF stage = "summaryStage" THEN {"summary", "needs_detail"}
  ELSE IF stage = "detailStage" THEN {"detail", "detail_needs_detail"}
  ELSE {"answer"}

\* fullResponse.includes(marker), the marker being the text 'NEEDS_DETAIL:' after a
\* magnifying-glass sign (content.js 2076)
HasMarker(text) == text \in {"needs_detail", "detail_needs_detail"}

\* a router that escalates every summary-stage response
EscalatesAlways(stage, text) == stage = "summaryStage"

\* a router that looks for the marker at every stage
EscalatesAtAnyStage(stage, text) == HasMarker(text)

\* the response of this stage sends the question on to retrieval: only step 2,
\* which follows the summary stage, looks for the marker (content.js 2075-2076)
Escalates(stage, text) == stage = "summaryStage" /\ HasMarker(text)

\* a test that takes any retrieval result for a context
AnyResult(found) == TRUE

\* if (retrievedContext): the chunks, joined, are a non-empty string
\* (content.js 2086-2088)
HasContext(found) == found

\* the marks the catch block looks for in the message of the error thrown
\* for a failed call: a status number, or the text of a failed fetch
Markers(status) ==
  CASE status = "429" -> {"429"}
    [] status = "503" -> {"503"}
    [] status = "500" -> {"500"}
    [] status = "401" -> {"401"}
    [] status = "network" -> {"Failed to fetch"}
    [] status = "429_503" -> {"429", "503"}
    [] status = "503_500" -> {"503", "500"}
    [] status = "500_401" -> {"500", "401"}
    [] status = "401_network" -> {"401", "Failed to fetch"}
    [] OTHER -> {}

\* response.status as window.fetch sees it: the status the message begins
\* with, and none when the fetch itself failed
HttpStatus(status) ==
  CASE status \in {"429_503"} -> "429"
    [] status \in {"503_500"} -> "503"
    [] status \in {"500_401"} -> "500"
    [] status \in {"401_network"} -> "401"
    [] status = "network" -> "none"
    [] OTHER -> status

\* the error is a rate limit (content.js 2266-2272)
isRateLimit(status) == "429" \in Markers(status)

\* a classification that looks for an invalid key before a server error
ClassifyKeyFirst(status) ==
  IF isRateLimit(status) THEN "RateLimited"
  ELSE IF "503" \in Markers(status) THEN "ServiceUnavailable"
  ELSE IF "401" \in Markers(status) THEN "InvalidCredential"
  ELSE IF "500" \in Markers(status) THEN "ServerError"
  ELSE IF "Failed to fetch" \in Markers(status) THEN "NetworkError"
  ELSE "Other"

\* the if / else if chain of the catch block (content.js 2274-2314)
Classify(status) ==
  IF isRateLimit(status) THEN "RateLimited"
  ELSE IF "503" \in Markers(status) THEN "ServiceUnavailable"
  ELSE IF "500" \in Markers(status) THEN "ServerError"
  ELSE IF "401" \in Markers(status) THEN "InvalidCredential"
  ELSE IF "Failed to fetch" \in Markers(status) THEN "NetworkError"
  ELSE "Other"

\* the message addMessage(..., 'error') puts on the page: every kind but a
\* rate limit has one (content.js 2287-2314)
ErrorShownAfter(status) ==
  IF isRateLimit(status) THEN errorShown ELSE Classify(status)

\* the frame of a call that has returned: its local variables are gone
Returned ==
  [q |-> "", branch |-> "", pc |-> "done", resp |-> "none", model |-> "",
   fullResponse |-> "", shown |-> "", found |-> FALSE, nCompletions |-> 0,
   nRetrievals |-> 0]

\* the call starts: from the entry to the first await (content.js 2001-2058,
\* 2139-2153, 2168-2170, 2202-2222)
HandleSend(q) ==
  \* init attaches the listeners after processPageContent (content.js 1057-1067)
  /\ ppc = "done"
  /\ Len(sends) < MaxSends
  /\ pageContent # NullObj
  /\ chain # NullObj
  /\ LET id == Len(sends) + 1
         br == SendBranch
         retrieves == br = "rag"
     IN /\ sends' = Append(sends,
                      [q |-> q, branch |-> br,
                       pc |-> IF br = "hybrid" THEN "summaryStage"
                              ELSE IF retrieves THEN "embed" ELSE "single",
                       resp |-> "pending",
                       model |-> IF retrieves THEN "embedding"
                                 ELSE MODEL_FALLBACK_CHAIN[chain.model],
                       fullResponse |-> "",
                       shown |-> "",
                       found |-> FALSE,
                       nCompletions |-> IF retrieves THEN 0 ELSE 1,
                       nRetrievals |-> IF retrieves THEN 1 ELSE 0])
        /\ activeRequestId' = ReqId(id)
  /\ lastUserMessage' = q
  /\ sendBtnDisabled' = TRUE
  /\ UNCHANGED <<docVars, retrieved, openTabs, lastCall, modeVars, procVars, rateVars, currentModelIndex,
                 lastFailedQuestion, rateLimitPromptShown, prompts, finals, errorShown,
                 timeVars, chatHistory, cacheStore, reopens>>

\* the send button: a disabled button gives no click event (content.js 1061)
ClickSend ==
  /\ ~sendBtnDisabled
  /\ HandleSend(Question(Len(sends) + 1))
  /\ UNCHANGED switches

\* the Enter key in the input box (content.js 1062-1067)
PressEnter ==
  /\ HandleSend(Question(Len(sends) + 1))
  /\ UNCHANGED switches

\* the provider answers a call of request i: window.fetch resumes with the
\* response, runs the interceptor and hands the response on
FetchResponse(i, status) ==
  /\ i \in DOMAIN sends
  /\ sends[i].resp = "pending"
  /\ sends' = [sends EXCEPT ![i].resp = status]
  /\ Intercept(HttpStatus(status))
  /\ UNCHANGED <<docVars, retrieved, openTabs, lastCall, modeVars, procVars, limitVars, pageVars, timeVars,
                 chatHistory, switches, cacheStore, reopens>>

\* the history is pushed and truncated, and saveChatHistory is awaited
\* (content.js 2135-2137, 2238-2244)
Answered(i, text, shown, found) ==
  /\ chatHistory' = PushExchange(chatHistory, sends[i].q, text)
  /\ cacheStore' = saveChatHistory(cacheStore, currentTabId,
                                   PushExchange(chatHistory, sends[i].q, text))
  /\ sends' = [sends EXCEPT ![i].pc = "save", ![i].resp = "none",
                            ![i].fullResponse = text, ![i].shown = shown,
                            ![i].found = found]

\* the stream of a completion call has ended with this text: of the summary
\* stage (content.js 2054-2086), of the detail stage (2115-2137), or of a
\* single-call mode (2149-2166, 2183-2200, 2218-2235)
StreamDone(i, text) ==
  /\ i \in DOMAIN sends
  /\ sends[i].pc \in {"summaryStage", "detailStage", "single"}
  /\ sends[i].resp = "200"
  /\ text \in StageTexts(sends[i].pc)
  /\ IF Escalates(sends[i].pc, text)
     THEN /\ sends' = [sends EXCEPT ![i].pc = "embed", ![i].resp = "pending",
                                    ![i].model = "embedding",
                                    ![i].fullResponse = text,
                                    ![i].shown = "searching",
                                    ![i].nRetrievals = @ + 1]
          /\ UNCHANGED <<chatHistory, cacheStore>>
     ELSE Answered(i, text, text, sends[i].found)
  /\ UNCHANGED <<docVars, retrieved, openTabs, lastCall, modeVars, procVars, rateVars, limitVars, pageVars,
                 timeVars, switches, reopens>>

\* retrieveRelevantChunks returns: an embedQuery error gives [] (content.js
\* 1742-1806), and then the branch goes on (2086-2132, 2171-2187)
EmbedDone(i, found) ==
  /\ i \in DOMAIN sends
  /\ sends[i].pc = "embed"
  /\ sends[i].resp \notin {"pending", "none"}
  /\ (sends[i].resp # "200" => ~found)
  /\ IF sends[i].branch = "hybrid"
     THEN IF HasContext(found)
          THEN /\ sends' = [sends EXCEPT ![i].pc = "detailStage", ![i].resp = "pending",
                                         ![i].model = getCurrentModel,
                                         ![i].found = found,
                                         ![i].nCompletions = @ + 1]
               /\ UNCHANGED <<chatHistory, cacheStore>>
          ELSE Answered(i, sends[i].fullResponse, "no_details", found)
     ELSE /\ sends' = [sends EXCEPT ![i].pc = "single", ![i].resp = "pending",
                                    ![i].model = MODEL_FALLBACK_CHAIN[chain.model],
                                    ![i].found = found,
                                    ![i].nCompletions = @ + 1]
          /\ UNCHANGED <<chatHistory, cacheStore>>
  /\ UNCHANGED <<docVars, retrieved, openTabs, lastCall, modeVars, procVars, rateVars, limitVars, pageVars,
                 timeVars, switches, reopens>>

\* a report that offers a switch whatever the cursor
SwitchPromptOnly == "prompt"

\* showModelSwitchPrompt(): a prompt, or the final message at the end of the
\* chain (content.js 840-892); what it shows
showModelSwitchPrompt == IF getNextModel = Null THEN "final" ELSE "prompt"

\* the prompts and final messages on the page after a report
PromptsAfter(report) == IF report = "prompt" THEN prompts + 1 ELSE prompts
FinalsAfter(report) == IF report = "final" THEN finals + 1 ELSE finals

\* what handleSend's catch block reports for an error (content.js 2274-2286)
CatchReport(status) == IF isRateLimit(status) THEN showModelSwitchPrompt ELSE "error"

\* a call that has put the question in the history before its answer came
HistoryWithQuestion(i) == Append(chatHistory, [role |-> "human", content |-> sends[i].q])

\* chatHistory after the catch block: the pushes follow the stream loops
\* (content.js 2135-2136, 2238-2239), which the error has left, and the catch
\* block pushes nothing (2246-2316)
HistoryAfterError(i) == chatHistory

\* a completion call failed: catch, then finally (content.js 2246-2324)
SendFail(i) ==
  /\ i \in DOMAIN sends
  /\ sends[i].pc \in {"summaryStage", "detailStage", "single"}
  /\ sends[i].resp \notin {"pending", "none", "200"}
  /\ LET report == CatchReport(sends[i].resp)
     IN /\ lastFailedQuestion' =
             (IF isRateLimit(sends[i].resp) THEN sends[i].q ELSE lastFailedQuestion)
        /\ prompts' = PromptsAfter(report)
        /\ finals' = FinalsAfter(report)
  /\ errorShown' = ErrorShownAfter(sends[i].resp)
  /\ sends' = [sends EXCEPT ![i] = Returned]
  /\ activeRequestId' = Null
  /\ sendBtnDisabled' = FALSE
  /\ chatHistory' = HistoryAfterError(i)
  /\ UNCHANGED <<docVars, retrieved, openTabs, lastCall, modeVars, procVars, rateVars, currentModelIndex,
                 rateLimitPromptShown, lastUserMessage, timeVars,
                 switches, cacheStore, reopens>>

\* saveChatHistory has resolved: the finally block (content.js 2317-2324)
SendFinally(i) ==
  /\ i \in DOMAIN sends
  /\ sends[i].pc = "save"
  /\ sends' = [sends EXCEPT ![i] = Returned]
  /\ activeRequestId' = Null
  /\ sendBtnDisabled' = FALSE
  /\ UNCHANGED <<docVars, retrieved, openTabs, lastCall, modeVars, procVars, rateVars, currentModelIndex,
                 lastFailedQuestion, rateLimitPromptShown, lastUserMessage, prompts,
                 finals, errorShown, timeVars, chatHistory, switches, cacheStore,
                 reopens>>

(***************************************************************************)
(* The interceptor's timer and the switch prompt (content.js 840-1015)     *)
(***************************************************************************)
\* the due times of the pending 500 ms waits of Switch handlers
RetryDues == {switches[h].due : h \in {k \in DOMAIN switches : switches[k].pc = "delay"}}

\* the event loop runs timer callbacks in the order of their due times
EarliestDue(due) ==
  /\ now >= due
  /\ \A d \in RetryDues : d >= due
  /\ timers # <<>> => Head(timers) >= due

\* what the timer callback reports (content.js 1002-1014)
TimerReport ==
  IF getNextModel # Null /\ ~rateLimitPromptShown THEN showModelSwitchPrompt
  ELSE IF getNextModel = Null THEN "final"
  ELSE "none"

\* the callback of setTimeout(..., 100) runs (content.js 981-1015)
TimerFire ==
  /\ timers # <<>>
  /\ EarliestDue(Head(timers))
  /\ timers' = Tail(timers)
  /\ sendBtnDisabled' = FALSE
  /\ lastFailedQuestion' =
       (IF Truthy(lastFailedQuestion) THEN lastFailedQuestion ELSE lastUserMessage)
  /\ LET report == TimerReport
     IN /\ prompts' = PromptsAfter(report)
        /\ finals' = FinalsAfter(report)
        /\ rateLimitPromptShown' =
             (IF report = "prompt" THEN TRUE
              ELSE IF report = "final" THEN FALSE ELSE rateLimitPromptShown)
        /\ isHandlingRateLimit' =
             (IF report = "final" THEN FALSE ELSE isHandlingRateLimit)
  /\ UNCHANGED <<docVars, retrieved, openTabs, lastCall, modeVars, procVars, lastRateLimitTime, honoredAt,
                 currentModelIndex, activeRequestId, lastUserMessage, errorShown,
                 timeVars, chatHistory, switches, sends, cacheStore, reopens>>

\* the value lastRateLimitTime takes when a prompt's button is clicked
\* (content.js 903, 932)
ResetCooldown == 0

\* a cursor that goes back to the first model after the second
AlternateIndex == (currentModelIndex + 1) % 2

\* currentModelIndex++ (content.js 774)
NextIndex == currentModelIndex + 1

\* the Switch button, to the await in switchToNextModel (content.js 897-905,
\* 771-778)
ClickSwitch ==
  /\ prompts > 0
  /\ prompts' = prompts - 1
  /\ rateLimitPromptShown' = FALSE
  /\ isHandlingRateLimit' = FALSE
  /\ lastRateLimitTime' = ResetCooldown
  /\ IF getNextModel # Null
     THEN /\ currentModelIndex' = NextIndex
          /\ switches' = Append(switches, [pc |-> "getKey", q |-> Null, due |-> 0])
     ELSE UNCHANGED <<currentModelIndex, switches>>
  /\ UNCHANGED <<docVars, retrieved, openTabs, lastCall, modeVars, procVars, timers, honoredAt, lastFailedQuestion,
                 activeRequestId, sendBtnDisabled, lastUserMessage, finals, errorShown,
                 timeVars, chatHistory, sends, cacheStore, reopens>>

\* the system prompt switchToNextModel rebuilds the chain with (content.js 779-787)
RebuildPrompt ==
  IF useHybridMode THEN "hybrid"
  ELSE IF isLongDocument THEN "rag"
  ELSE IF useSummaryMode THEN "summary"
  ELSE "stuffing"

RemoveAt(seq, k) == SubSeq(seq, 1, k - 1) \o SubSeq(seq, k + 1, Len(seq))

\* a Switch handler resumes after getApiKey: the chain is rebuilt, and the failed
\* question is taken for the retry (content.js 778-789, 906-915)
SwitchRebuild(h) ==
  /\ h \in DOMAIN switches
  /\ switches[h].pc = "getKey"
  /\ chain' = initLangChain(RebuildPrompt)
  /\ IF Truthy(lastFailedQuestion)
     THEN /\ switches' = [switches EXCEPT ![h] = [pc |-> "delay",
                                                  q |-> lastFailedQuestion,
                                                  due |-> now + RETRY_DELAY]]
          /\ lastFailedQuestion' = Null
     ELSE /\ switches' = RemoveAt(switches, h)
          /\ UNCHANGED lastFailedQuestion
  /\ UNCHANGED <<docVars, retrieved, openTabs, lastCall, documentSummary, vectorStore, isLongDocument, useSummaryMode,
                 useHybridMode, modeBadge, procVars, rateVars, currentModelIndex,
                 rateLimitPromptShown, activeRequestId, pageVars, timeVars,
                 chatHistory, sends, cacheStore, reopens>>

\* the 500 ms are over: the question is put in the input box and handleSend is
\* called (content.js 915-919)
SwitchResubmit(h) ==
  /\ h \in DOMAIN switches
  /\ switches[h].pc = "delay"
  /\ EarliestDue(switches[h].due)
  /\ HandleSend(switches[h].q)
  /\ switches' = RemoveAt(switches, h)

\* the Cancel button (content.js 924-935)
ClickCancel ==
  /\ prompts > 0
  /\ prompts' = prompts - 1
  /\ rateLimitPromptShown' = FALSE
  /\ isHandlingRateLimit' = FALSE
  /\ lastFailedQuestion' = Null
  /\ activeRequestId' = Null
  /\ lastRateLimitTime' = ResetCooldown
  /\ UNCHANGED <<docVars, retrieved, openTabs, lastCall, modeVars, procVars, timers, honoredAt, currentModelIndex,
                 sendBtnDisabled, lastUserMessage, finals, errorShown, timeVars,
                 chatHistory, switches, sends, cacheStore, reopens>>

(***************************************************************************)
(* Time                                                                    *)
(***************************************************************************)
\* the program reads the clock in three comparisons only: the cooldown guard and
\* the due times of the two kinds of timers.  While none of them can change its
\* value the passage of time is invisible, and the model lets the clock stand.
TimeMatters ==
  \/ now - lastRateLimitTime < RATE_LIMIT_COOLDOWN
  \/ timers # <<>> /\ now < Head(timers)
  \/ \E d \in RetryDues : now < d

Tick ==
  /\ ticks < MaxTicks
  /\ TimeMatters
  /\ ticks' = ticks + 1
  /\ now' = now + TickMs
  /\ UNCHANGED <<docVars, retrieved, openTabs, lastCall, modeVars, procVars, rateVars, limitVars, pageVars,
                 chatHistory, switches, sends, cacheStore, reopens>>

(***************************************************************************)
(* Specification of the routing: documents around every threshold, opened  *)
(* and reopened, with every outcome of the two builds                      *)
(***************************************************************************)
EmptyStore == [k \in SessionKeys |-> NullObj]

InitRoute ==
  /\ \E tab \in Tabs, url \in Urls, len \in RouteDocLengths : IsFresh(Fresh(tab, url, len))
  /\ cacheStore = EmptyStore
  /\ reopens = 0
  /\ openTabs = Tabs
  /\ lastCall = NullObj
  /\ now = RATE_LIMIT_COOLDOWN
  /\ ticks = 0

NextRoute ==
  \/ ProcessStart
  \/ \E o \in SummaryOutcomes, t \in SummaryTexts : SummaryFinish(o, t)
  \/ \E calls \in EmbedCalls : IndexFinish(calls)
  \/ ProcessJoin
  \/ ProcessIndexed
  \/ Reopen(ReopenDocLengths \cup SameDocLength)

SpecRoute == InitRoute /\ [][NextRoute]_vars

(***************************************************************************)
(* Specification of one popup context: a document of each size class is    *)
(* processed and questions are asked about it                              *)
(***************************************************************************)
\* a document of the first Hybrid bucket and one of the retrieval bucket: with
\* the outcomes of their builds they give every mode handleSend can run in
ChatDocLengths ==
  {(CHARS_PER_TOKEN * (DIRECT_LIMIT + COMPACT_LIMIT)) \div 2,
   CHARS_PER_TOKEN * HYBRID_LIMIT * 2}

\* a page of 8000 estimated tokens
ShortDocLengths == {CHARS_PER_TOKEN * (DIRECT_LIMIT - DIRECT_LIMIT \div 5)}

Init ==
  /\ \E len \in ChatDocLengths : IsFresh(Fresh("t1", "u1", len))
  /\ cacheStore = EmptyStore
  /\ reopens = 0
  /\ openTabs = Tabs
  /\ lastCall = NullObj
  /\ now = RATE_LIMIT_COOLDOWN
  /\ ticks = 0

Next ==
  \/ ProcessStart
  \/ \E o \in {"ok", "429"} : SummaryFinish(o, "s1")
  \/ \E o \in {"ok", "429"} : IndexFinish(UniformCalls(o))
  \/ ProcessJoin
  \/ ProcessIndexed
  \/ ClickSend
  \/ PressEnter
  \/ \E i \in 1..MaxSends, st \in Statuses : FetchResponse(i, st)
  \/ \E i \in 1..MaxSends, t \in {"summary", "needs_detail", "detail",
                                    "detail_needs_detail", "answer"} : StreamDone(i, t)
  \/ \E i \in 1..MaxSends, f \in BOOLEAN : EmbedDone(i, f)
  \/ \E i \in 1..MaxSends : SendFail(i)
  \/ \E i \in 1..MaxSends : SendFinally(i)
  \/ TimerFire
  \/ ClickSwitch
  \/ \E h \in 1..Len(switches) : SwitchRebuild(h)
  \/ \E h \in 1..Len(switches) : SwitchResubmit(h)
  \/ ClickCancel
  \/ Tick

Spec == Init /\ [][Next]_vars

(***************************************************************************)
(* Specification of a popup opened on a tab with a saved conversation: init *)
(* restores the history (loadChatHistory) before it processes the page,     *)
(* and questions are then asked; provider errors are of the ordinary kind   *)
(***************************************************************************)
\* what saveChatHistory has stored: whole exchanges, 20 messages at most
RestoredHistory(n) ==
  [k \in 1..n |-> [role |-> IF k % 2 = 1 THEN "human" ELSE "ai",
                   content |-> "old" \o ToString(k)]]

\* the lengths of the saved conversations: none, and three that end at or near
\* the limit
HistoryLengths == {0, HISTORY_LIMIT - 4, HISTORY_LIMIT - 2, HISTORY_LIMIT}

InitHistory ==
  /\ \E len \in ChatDocLengths \cup ShortDocLengths, n \in HistoryLengths :
       /\ IsFresh([Fresh("t1", "u1", len) EXCEPT
                     !.chatHistory = RestoredHistory(n),
                     !.lastUserMessage = IF n = 0 THEN Null
                                         ELSE RestoredHistory(n)[n - 1].content])
       /\ cacheStore = (IF n = 0 THEN EmptyStore
                        ELSE saveChatHistory(EmptyStore, "t1", RestoredHistory(n)))
  /\ reopens = 0
  /\ openTabs = Tabs
  /\ lastCall = NullObj
  /\ now = RATE_LIMIT_COOLDOWN
  /\ ticks = 0

NextHistory ==
  \/ ProcessStart
  \/ SummaryFinish("ok", "s1")
  \/ IndexFinish(UniformCalls("ok"))
  \/ ProcessJoin
  \/ ProcessIndexed
  \/ ClickSend
  \/ PressEnter
  \/ \E i \in 1..MaxSends, st \in {"200", "503"} : FetchResponse(i, st)
  \/ \E i \in 1..MaxSends, t \in {"summary", "needs_detail", "detail",
                                    "detail_needs_detail", "answer"} : StreamDone(i, t)
  \/ \E i \in 1..MaxSends, f \in BOOLEAN : EmbedDone(i, f)
  \/ \E i \in 1..MaxSends : SendFail(i)
  \/ \E i \in 1..MaxSends : SendFinally(i)

SpecHistory == InitHistory /\ [][NextHistory]_vars

(***************************************************************************)
(* The embedding index: cosineSimilarity and retrieveRelevantChunks         *)
(* (content.js 1684-1807).  Scores are counted in thousandths; the vectors  *)
(* of the model have whole magnitudes, so that every score is exact.        *)
(***************************************************************************)
\* a score of 1
Scale == 1000

\* a stored embedding that is undefined or null, and one that is no array
Missing == [kind |-> "missing", values |-> <<>>]
NotArray == [kind |-> "object", values |-> <<>>]
\* embedQuery has thrown
Rejected == [kind |-> "rejected", values |-> <<>>]

\* vec.reduce((sum, a, i) => sum + a * vecB[i], 0)
RECURSIVE DotProduct(_, _)
DotProduct(a, b) ==
  IF a = <<>> THEN 0
  ELSE a[Len(a)] * b[Len(a)] + DotProduct(SubSeq(a, 1, Len(a) - 1), b)

\* Math.sqrt, of the square of a whole number
Sqrt(n) == CHOOSE r \in 0..n : r * r = n

\* an array of BigInt values: Array.isArray accepts it, and arithmetic that
\* mixes its elements with numbers throws a TypeError
BigInts(v) == [kind |-> "bigints", values |-> v]

\* Array.isArray(vec), for a value that is not missing
IsArray(vec) == vec.kind \in {"array", "bigints"}

\* how a call ends: it returns a value, or it throws
Returns(value) == [thrown |-> FALSE, value |-> value]
Throws == [thrown |-> TRUE, value |-> 0]

\* the try block of cosineSimilarity (content.js 1697-1705): the first reduce
\* adds a product to the number 0, which throws when a factor is a BigInt
SimilarityBody(vecA, vecB) ==
  IF Len(vecA.values) > 0 /\ (vecA.kind = "bigints" \/ vecB.kind = "bigints") THEN Throws
  ELSE LET dotProduct == DotProduct(vecA.values, vecB.values)
           magnitudeA == Sqrt(DotProduct(vecA.values, vecA.values))
           magnitudeB == Sqrt(DotProduct(vecB.values, vecB.values))
       IN IF magnitudeA = 0 \/ magnitudeB = 0 THEN Returns(0)
          ELSE Returns((dotProduct * Scale) \div (magnitudeA * magnitudeB))

\* a function that lets the exceptions of its computation through
SimilarityUncaught(vecA, vecB) ==
  IF ~IsArray(vecA) \/ ~IsArray(vecB) THEN Returns(0)
  ELSE IF Len(vecA.values) # Len(vecB.values) THEN Returns(0)
  ELSE SimilarityBody(vecA, vecB)

\* cosineSimilarity(vecA, vecB), and how the call ends
SimilarityCall(vecA, vecB) ==
  IF ~IsArray(vecA) \/ ~IsArray(vecB) THEN Returns(0)
  ELSE IF Len(vecA.values) # Len(vecB.values) THEN Returns(0)
  ELSE LET body == SimilarityBody(vecA, vecB)
       IN IF body.thrown THEN Returns(0) ELSE body

\* the value cosineSimilarity(vecA, vecB) returns
cosineSimilarity(vecA, vecB) == SimilarityCall(vecA, vecB).value

\* vectorStore.embeddings.map((embedding, index) => ...) (content.js 1760-1779)
Similarities(vs, queryEmbedding) ==
  [index \in 1..Len(vs.embeddings) |->
     LET embedding == vs.embeddings[index]
         chunk == IF index <= Len(vs.chunks) THEN vs.chunks[index] ELSE ""
     IN IF ~IsArray(embedding) \/ Len(embedding.values) = 0
        THEN [chunk |-> chunk, score |-> 0, index |-> index]
        ELSE IF Len(embedding.values) # Len(queryEmbedding.values)
        THEN [chunk |-> chunk, score |-> 0, index |-> index]
        ELSE [chunk |-> chunk, score |-> cosineSimilarity(queryEmbedding, embedding),
              index |-> index]]

\* similarities.filter(...) (content.js 1782-1787)
ValidSimilarities(similarities, scoreThreshold) ==
  SelectSeq(similarities, LAMBDA item : item.chunk # "" /\ item.score >= scoreThreshold)

\* an order that leaves the items where they are
KeepOrder(items) == items

\* .sort((a, b) => b.score - a.score): by descending score, and stable
RECURSIVE SortByScore(_)
SortByScore(items) ==
  IF items = <<>> THEN <<>>
  ELSE LET last == items[Len(items)]
           sorted == SortByScore(SubSeq(items, 1, Len(items) - 1))
           ahead == Cardinality({j \in 1..Len(sorted) : sorted[j].score >= last.score})
       IN SubSeq(sorted, 1, ahead) \o <<last>> \o SubSeq(sorted, ahead + 1, Len(sorted))

\* .slice(0, k), for k >= 0
Slice(items, k) == SubSeq(items, 1, IF k < Len(items) THEN k ELSE Len(items))

\* retrieveRelevantChunks(query, k, scoreThreshold), the query's embedding
\* being what vectorStore.embedder.embedQuery(query) answers
retrieveRelevantChunks(vs, queryEmbedding, k, scoreThreshold) ==
  IF vs = NullObj THEN <<>>
  ELSE IF Len(vs.embeddings) = 0 THEN <<>>
  ELSE IF ~IsArray(queryEmbedding) \/ Len(queryEmbedding.values) = 0 THEN <<>>
  ELSE LET filtered == Slice(SortByScore(ValidSimilarities(
                               Similarities(vs, queryEmbedding), scoreThreshold)), k)
       IN [j \in 1..Len(filtered) |-> filtered[j].chunk]

\* k = 4, scoreThreshold = 0.5
DEFAULT_K == 4
DEFAULT_THRESHOLD == Scale \div 2

\* chunks of the indexes the retrieval is run on
IndexSize == 3

\* the values found in the embeddings array of a restored index: vectors of
\* the query's dimension, and values of the kinds the code guards against
StoredEmbeddings ==
  {Vector(<<1, 0>>), Vector(<<0, 1>>), Vector(<<3, 4>>), Vector(<<4, 3>>),
   Vector(<<-1, 0>>), Vector(<<0, 0>>),
   Missing, NotArray, Vector(<<>>), Vector(<<1, 0, 0>>)}

\* an index of IndexSize chunks
Indexes(len) ==
  {[docLen |-> len, chunks |-> [i \in 1..IndexSize |-> "c" \o ToString(i)],
    embeddings |-> e] : e \in [1..IndexSize -> StoredEmbeddings]}

\* what embedQuery(query) answers
QueryEmbeddings == {Vector(<<1, 0>>), Vector(<<3, 4>>), Vector(<<>>), Rejected}
\* the arguments k and scoreThreshold
Ks == {0, 1, 2, DEFAULT_K}
Thresholds == {0 - DEFAULT_THRESHOLD, 0, DEFAULT_THRESHOLD, Scale}

\* a call of retrieveRelevantChunks returns.  The function reads nothing of
\* what an earlier call returned, and a context is followed to its first call
Retrieve(queryEmbedding, k, scoreThreshold) ==
  /\ ppc = "done"
  /\ retrieved = NullObj
  /\ retrieved' = [k |-> k, scoreThreshold |-> scoreThreshold,
                   queryEmbedding |-> queryEmbedding,
                   chunks |-> retrieveRelevantChunks(vectorStore, queryEmbedding, k,
                                                     scoreThreshold)]
  /\ UNCHANGED <<docVars, modeVars, procVars, rateVars, limitVars, pageVars, timeVars,
                 chatHistory, switches, sends, cacheStore, reopens, openTabs, lastCall>>

\* a popup opened on a long page whose index the session storage holds: the
\* state after the cache hit of processPageContent (content.js 1275-1327)
InitRetrieve ==
  \E vs \in Indexes(4 * HYBRID_LIMIT) :
    /\ IsFresh([Fresh("t1", "u1", 4 * HYBRID_LIMIT) EXCEPT
                  !.vectorStore = vs, !.isLongDocument = TRUE, !.modeBadge = "rag",
                  !.chain = [prompt |-> "rag", model |-> 0], !.bucket = "hit", !.ppc = "done"])
    /\ cacheStore = saveProcessingCache(EmptyStore, "t1", "u1", Null, vs)
    /\ reopens = 0
    /\ openTabs = Tabs
    /\ lastCall = NullObj
    /\ now = RATE_LIMIT_COOLDOWN
    /\ ticks = 0

NextRetrieve ==
  \E q \in QueryEmbeddings, k \in Ks, t \in Thresholds : Retrieve(q, k, t)

SpecRetrieve == InitRetrieve /\ [][NextRetrieve]_vars

(***************************************************************************)
(* Specification of cosineSimilarity on its own: the function is called on  *)
(* every pair of values of the kinds its checks tell apart                  *)
(***************************************************************************)
\* arrays of numbers of two lengths, with and without magnitude, the empty
\* array, missing values, values that are no arrays, and arrays of BigInts
SimilarityArgs ==
  {Vector(<<1, 0>>), Vector(<<3, 4>>), Vector(<<-4, 3>>), Vector(<<0, 0>>),
   Vector(<<1, 0, 0>>), Vector(<<0, 0, 0>>), Vector(<<>>),
   Missing, NotArray, BigInts(<<1, 0>>), BigInts(<<0, 0>>), BigInts(<<>>)}

\* a call of cosineSimilarity ends.  The function reads no state, and a
\* context is followed to its first call
Similarity(vecA, vecB) ==
  /\ lastCall = NullObj
  /\ lastCall' = [fn |-> "cosineSimilarity", vecA |-> vecA, vecB |-> vecB,
                  outcome |-> SimilarityCall(vecA, vecB)]
  /\ UNCHANGED <<docVars, modeVars, procVars, rateVars, limitVars, pageVars, timeVars,
                 chatHistory, switches, sends, cacheStore, reopens, retrieved, openTabs>>

NextSimilarity == \E vecA \in SimilarityArgs, vecB \in SimilarityArgs : Similarity(vecA, vecB)

SpecSimilarity == Init /\ [][NextSimilarity]_vars

(***************************************************************************)
(* Specification of getOptimalChunkConfig on its own (content.js 1548-1592): *)
(* the function is called, in both policies, on document lengths around     *)
(* every band limit                                                        *)
(***************************************************************************)
\* Math.round(n / d), for n >= 0 and d > 0
Round(n, d) == (2 * n + d) \div (2 * d)

\* a configuration whose smallest documents get an overlap of a quarter
getChunkConfigWideOverlap(documentLength, useLargeChunks) ==
  LET chunkSize ==
        IF useLargeChunks
        THEN IF documentLength < 30000 THEN 1500
             ELSE IF documentLength < 80000 THEN 2500
             ELSE IF documentLength < 150000 THEN 3500
             ELSE 5000
        ELSE IF documentLength < 20000 THEN 500
             ELSE IF documentLength < 50000 THEN 800
             ELSE IF documentLength < 100000 THEN 1200
             ELSE IF documentLength < 200000 THEN 1800
             ELSE 2500
      overlapPercent ==
        IF useLargeChunks THEN 15
        ELSE IF documentLength < 20000 THEN 25
             ELSE IF documentLength < 50000 THEN 18
             ELSE IF documentLength < 100000 THEN 15
             ELSE IF documentLength < 200000 THEN 12
             ELSE 10
  IN [chunkSize |-> chunkSize, chunkOverlap |-> Round(chunkSize * overlapPercent, 100)]

\* getOptimalChunkConfig(documentLength, useLargeChunks)
getOptimalChunkConfig(documentLength, useLargeChunks) ==
  LET chunkSize ==
        IF useLargeChunks
        THEN IF documentLength < 30000 THEN 1500
             ELSE IF documentLength < 80000 THEN 2500
             ELSE IF documentLength < 150000 THEN 3500
             ELSE 5000
        ELSE IF documentLength < 20000 THEN 500
             ELSE IF documentLength < 50000 THEN 800
             ELSE IF documentLength < 100000 THEN 1200
             ELSE IF documentLength < 200000 THEN 1800
             ELSE 2500
      overlapPercent ==
        IF useLargeChunks THEN 15
        ELSE IF documentLength < 20000 THEN 20
             ELSE IF documentLength < 50000 THEN 18
             ELSE IF documentLength < 100000 THEN 15
             ELSE IF documentLength < 200000 THEN 12
             ELSE 10
  IN [chunkSize |-> chunkSize, chunkOverlap |-> Round(chunkSize * overlapPercent, 100)]

\* the limits of the bands of the two policies, in characters
BandLimits == {20000, 50000, 100000, 200000, 30000, 80000, 150000}

\* document lengths around every band limit, a one-character document and a
\* very long one
ChunkDocLengths ==
  UNION {Around(n) : n \in BandLimits} \cup {1, 2 * 200000}

\* a call of getOptimalChunkConfig returns
ChunkConfig(documentLength, useLargeChunks) ==
  /\ lastCall' = [fn |-> "getOptimalChunkConfig", documentLength |-> documentLength,
                  useLargeChunks |-> useLargeChunks,
                  outcome |-> getOptimalChunkConfig(documentLength, useLargeChunks)]
  /\ UNCHANGED <<docVars, modeVars, procVars, rateVars, limitVars, pageVars, timeVars,
                 chatHistory, switches, sends, cacheStore, reopens, retrieved, openTabs>>

NextChunkConfig ==
  \E documentLength \in ChunkDocLengths, useLargeChunks \in BOOLEAN :
    ChunkConfig(documentLength, useLargeChunks)

SpecChunkConfig == Init /\ [][NextChunkConfig]_vars

(***************************************************************************)
(* truncateMarkdownSafely (content.js 1594-1637).  A text is modelled by   *)
(* its length; the chunks are the lengths of the pieces the markdown       *)
(* splitter returned for it.                                               *)
(***************************************************************************)
\* the separator '\n\n' appended after every whole chunk
CHUNK_SEPARATOR == 2

\* a partial chunk is appended only when more than this many characters remain
PARTIAL_FLOOR == 500

\* the loop over the chunks: truncated is the length assembled before chunk i,
\* whole the number of chunks appended in full
RECURSIVE TruncateLoop(_, _, _, _, _)
TruncateLoop(chunks, i, truncated, whole, maxChars) ==
  IF i > Len(chunks)
  THEN [body |-> truncated, whole |-> whole, partial |-> 0]
  ELSE IF truncated + chunks[i] <= maxChars
       THEN TruncateLoop(chunks, i + 1, truncated + chunks[i] + CHUNK_SEPARATOR,
                         whole + 1, maxChars)
       ELSE LET remaining == maxChars - truncated
                cut == IF remaining > PARTIAL_FLOOR THEN remaining ELSE 0
            IN [body |-> truncated + cut, whole |-> whole, partial |-> cut]

\* truncateMarkdownSafely(markdown, maxChars): the text before the marker
\* (body, whole, partial) and the marker appended; splitterThrows is the
\* splitter failing, which the catch block answers with a plain cut
truncateMarkdownSafely(markdownLength, maxChars, chunks, splitterThrows) ==
  IF markdownLength <= maxChars
  THEN [body |-> markdownLength, whole |-> 0, partial |-> 0, marker |-> "none"]
  ELSE IF splitterThrows
       THEN [body |-> maxChars, whole |-> 0, partial |-> 0, marker |-> "plain"]
       ELSE [marker |-> "boundary"]
              @@ TruncateLoop(chunks, 1, 0, 0, maxChars)

\* the limits the callers pass: the direct answer and the summary
TruncateLimits == {50000, 100000}

\* text lengths below, at and above the limits, in every band of chunk sizes
TruncateDocLengths == {40000, 50000, 50001, 90000, 100000, 100001, 160000}

\* the most chunks drawn after the full ones
MaxTail == 2

\* n chunks of one length
FillChunks(n, length) == [j \in 1..n |-> length]

\* the lengths of the last chunks the splitter may return under a chunk size
TailLengths(chunkSize) ==
  {chunkSize, chunkSize - 1, chunkSize - CHUNK_SEPARATOR,
   chunkSize - PARTIAL_FLOOR, chunkSize - PARTIAL_FLOOR - 1,
   chunkSize - PARTIAL_FLOOR - CHUNK_SEPARATOR,
   chunkSize - PARTIAL_FLOOR - CHUNK_SEPARATOR - 1, PARTIAL_FLOOR - 1}

\* the chunk lists of a text: full chunks up to one chunk size below the
\* limit, then at most MaxTail chunks of the lengths above; no chunk is longer
\* than the chunk size
ChunkLists(markdownLength, maxChars) ==
  LET chunkSize == getOptimalChunkConfig(markdownLength, TRUE).chunkSize
      full == FillChunks((maxChars \div chunkSize) - 1, chunkSize - CHUNK_SEPARATOR)
  IN {full \o tail :
        tail \in UNION {[1..n -> TailLengths(chunkSize)] : n \in 0..MaxTail}}

\* a call of truncateMarkdownSafely returns
Truncate(markdownLength, maxChars, chunks, splitterThrows) ==
  /\ lastCall = NullObj
  /\ lastCall' = [fn |-> "truncateMarkdownSafely", markdownLength |-> markdownLength,
                  maxChars |-> maxChars, chunks |-> chunks,
                  outcome |-> truncateMarkdownSafely(markdownLength, maxChars,
                                                     chunks, splitterThrows)]
  /\ UNCHANGED <<docVars, modeVars, procVars, rateVars, limitVars, pageVars, timeVars,
                 chatHistory, switches, sends, cacheStore, reopens, retrieved, openTabs>>

NextTruncate ==
  \E markdownLength \in TruncateDocLengths, maxChars \in TruncateLimits,
     splitterThrows \in BOOLEAN :
    \E chunks \in ChunkLists(markdownLength, maxChars) :
      Truncate(markdownLength, maxChars, chunks, splitterThrows)

SpecTruncate == Init /\ [][NextTruncate]_vars

(***************************************************************************)
(* Specification of the failures of an answer: a short page, and questions  *)
(* whose provider calls fail in every way the catch block tells apart      *)
(***************************************************************************)
\* the failures of a provider call
ErrorStatuses ==
  {"429", "503", "500", "401", "network", "other",
   "429_503", "503_500", "500_401", "401_network"}

InitErrors ==
  /\ \E len \in ShortDocLengths : IsFresh(Fresh("t1", "u1", len))
  /\ cacheStore = EmptyStore
  /\ reopens = 0
  /\ openTabs = Tabs
  /\ lastCall = NullObj
  /\ now = RATE_LIMIT_COOLDOWN
  /\ ticks = 0

NextErrors ==
  \/ ProcessStart
  \/ ClickSend
  \/ PressEnter
  \/ \E i \in 1..MaxSends, st \in {"200"} \cup ErrorStatuses : FetchResponse(i, st)
  \/ \E i \in 1..MaxSends : StreamDone(i, "answer")
  \/ \E i \in 1..MaxSends : SendFail(i)
  \/ \E i \in 1..MaxSends : SendFinally(i)
  \/ TimerFire
  \/ ClickSwitch
  \/ \E h \in 1..Len(switches) : SwitchRebuild(h)
  \/ \E h \in 1..Len(switches) : SwitchResubmit(h)
  \/ ClickCancel
  \/ Tick

SpecErrors == InitErrors /\ [][NextErrors]_vars

(***************************************************************************)
(* Specification of one rate-limited question: the user asks one question   *)
(* about a short page, its completion call is answered with 429, and every  *)
(* later call succeeds.  The user answers the prompts in any order.         *)
(***************************************************************************)
\* the user asks the question of the context
AskOnce == sends = <<>> /\ ClickSend

NextSingleLimit ==
  \/ ProcessStart
  \/ AskOnce
  \/ FetchResponse(1, "429")
  \/ \E i \in 2..MaxSends : FetchResponse(i, "200")
  \/ \E i \in 1..MaxSends : StreamDone(i, "answer")
  \/ \E i \in 1..MaxSends : SendFail(i)
  \/ \E i \in 1..MaxSends : SendFinally(i)
  \/ TimerFire
  \/ ClickSwitch
  \/ \E h \in 1..Len(switches) : SwitchRebuild(h)
  \/ \E h \in 1..Len(switches) : SwitchResubmit(h)
  \/ ClickCancel
  \/ Tick

SpecSingleLimit == InitErrors /\ [][NextSingleLimit]_vars

(***************************************************************************)
(* Specification of a conversation that is cleared: questions about a short *)
(* page are answered or rate limited, and the user clears the chat with     *)
(* Cmd/Ctrl+L (content.js 504-525, 539-546)                                 *)
(***************************************************************************)
\* the KeyL shortcut, confirmed: the history is emptied and saved, and the
\* content of the messages area, prompts included, is replaced by the
\* welcome message
ClearChat ==
  /\ chatHistory # <<>>
  /\ chatHistory' = <<>>
  /\ cacheStore' = saveChatHistory(cacheStore, currentTabId, <<>>)
  /\ prompts' = 0
  /\ finals' = 0
  /\ lastUserMessage' = Null
  /\ errorShown' = Null
  /\ UNCHANGED <<docVars, retrieved, openTabs, lastCall, modeVars, procVars, rateVars,
                 limitVars, sendBtnDisabled, timeVars, switches, sends, reopens>>

NextClear ==
  \/ ProcessStart
  \/ ClickSend
  \/ PressEnter
  \/ \E i \in 1..MaxSends, st \in {"200", "429"} : FetchResponse(i, st)
  \/ \E i \in 1..MaxSends : StreamDone(i, "answer")
  \/ \E i \in 1..MaxSends : SendFail(i)
  \/ \E i \in 1..MaxSends : SendFinally(i)
  \/ TimerFire
  \/ ClickSwitch
  \/ \E h \in 1..Len(switches) : SwitchRebuild(h)
  \/ \E h \in 1..Len(switches) : SwitchResubmit(h)
  \/ ClickCancel
  \/ ClearChat
  \/ Tick

SpecClear == InitErrors /\ [][NextClear]_vars

(***************************************************************************)
(* Specification of the session storage across tabs: popups of the open     *)
(* tabs save conversations and processing results, and the background       *)
(* worker hears of every tab that is closed (background.js 8-16,            *)
(* content.js 1098-1116, 1162-1180)                                         *)
(***************************************************************************)
EmptySession == [k \in SessionKeys |-> NullObj]

\* a handler that clears everything kept for the tab
KeysOfTab(tabId) == {HistoryKey(tabId)} \cup {CacheKey(tabId, u) : u \in Urls}

\* the keys the onRemoved listener passes to chrome.storage.session.remove
RemovedKeys(tabId) == {HistoryKey(tabId)}

\* chrome.storage.session.remove(keys)
SessionRemove(store, keys) == [k \in DOMAIN store |-> IF k \in keys THEN NullObj ELSE store[k]]

\* the conversations a popup saves
SavedHistories == {RestoredHistory(2), RestoredHistory(4)}

\* the indexes a popup saves
SavedIndexes == {BuiltStore(len) : len \in ChatDocLengths}

\* the popup of an open tab saves its conversation
SaveHistory(tabId, history) ==
  /\ tabId \in openTabs
  /\ cacheStore' = saveChatHistory(cacheStore, tabId, history)
  /\ UNCHANGED <<docVars, modeVars, procVars, rateVars, limitVars, pageVars, timeVars,
                 chatHistory, switches, sends, reopens, retrieved, openTabs, lastCall>>

\* the popup of an open tab saves what it has built for the page
SaveCache(tabId, url, summary, vs) ==
  /\ tabId \in openTabs
  /\ cacheStore' = saveProcessingCache(cacheStore, tabId, url, summary, vs)
  /\ UNCHANGED <<docVars, modeVars, procVars, rateVars, limitVars, pageVars, timeVars,
                 chatHistory, switches, sends, reopens, retrieved, openTabs, lastCall>>

\* chrome.tabs.onRemoved fires for a tab
TabRemoved(tabId) ==
  /\ tabId \in openTabs
  /\ openTabs' = openTabs \ {tabId}
  /\ cacheStore' = SessionRemove(cacheStore, RemovedKeys(tabId))
  /\ UNCHANGED <<docVars, modeVars, procVars, rateVars, limitVars, pageVars, timeVars,
                 chatHistory, switches, sends, reopens, retrieved, lastCall>>

InitTabs ==
  /\ \E len \in ChatDocLengths : IsFresh(Fresh("t1", "u1", len))
  /\ cacheStore = EmptySession
  /\ reopens = 0
  /\ openTabs = Tabs
  /\ lastCall = NullObj
  /\ now = RATE_LIMIT_COOLDOWN
  /\ ticks = 0

NextTabs ==
  \/ \E t \in Tabs, h \in SavedHistories : SaveHistory(t, h)
  \/ \E t \in Tabs, u \in Urls, s \in SummaryTexts \cup {Null}, vs \in SavedIndexes :
       SaveCache(t, u, s, vs)
  \/ \E t \in Tabs : TabRemoved(t)

SpecTabs == InitTabs /\ [][NextTabs]_vars

(***************************************************************************)
(* Properties                                                              *)
(***************************************************************************)
\* processPageContent has returned from a cold-path branch whose builds, where
\* it ran any, succeeded (a second index build is run only after a failure)
ColdSuccess ==
  /\ nIndexBuilds <= 1
  /\ ppc = "done"
  /\ pageContent # NullObj
  /\ bucket \in {"A", "B", "C", "D"}
  /\ sumTask \in {"idle", "ok"}
  /\ ragTask \in {"idle", "ok"}

\* the mode questions are answered in
AnswerMode ==
  IF SendBranch = "hybrid" THEN "hybrid-" \o summarySize ELSE SendBranch

Frames == DOMAIN sends

\* C2: at most one question is in flight at any time: no handleSend call starts,
\* from the button, the Enter key or the resubmission after a switch, while an
\* earlier call has not reached its finally block
C2_OneInFlight == Cardinality(InFlight) <= 1

\* C3: in Hybrid mode retrieval is invoked iff the complete summary-stage
\* response contains the marker; a response without it is the final answer, with
\* no retrieval call and no second completion call
C3_RetrievalIffMarker ==
  [][\A i \in Frames :
       (sends[i].branch = "hybrid" /\ sends[i].pc = "summaryStage"
          /\ sends'[i].pc \in {"embed", "save"}) =>
         LET text == sends'[i].fullResponse
             marked == text \in {"needs_detail", "detail_needs_detail"}
         IN /\ (sends'[i].nRetrievals = sends[i].nRetrievals + 1) <=> marked
            /\ (sends'[i].pc = "embed") <=> marked
            /\ ~marked => /\ sends'[i].pc = "save"
                          /\ sends'[i].shown = text
                          /\ sends'[i].nRetrievals = 0
                          /\ sends'[i].nCompletions = 1]_vars

\* both cases have happened: a marked summary-stage response is in retrieval
\* while an unmarked one has been given as the answer
C3_Witness ==
  /\ \E i \in Frames : /\ sends[i].branch = "hybrid"
                       /\ sends[i].pc = "embed"
                       /\ sends[i].fullResponse = "needs_detail"
                       /\ sends[i].nRetrievals = 1
  /\ \E i \in Frames : /\ sends[i].branch = "hybrid"
                       /\ sends[i].pc = "save"
                       /\ sends[i].fullResponse = "summary"
                       /\ sends[i].nRetrievals = 0

\* C4: for a question in Hybrid mode retrieval is performed at most once and at
\* most two completion calls are issued; a marker in the detail-stage response
\* triggers no further retrieval and no further completion call
C4_BoundedEscalation ==
  \A i \in Frames :
    sends[i].branch = "hybrid" =>
      /\ sends[i].nRetrievals <= 1
      /\ sends[i].nCompletions <= 2
      /\ (sends[i].nCompletions = 2 /\ HasMarker(sends[i].fullResponse)) =>
           sends[i].pc \in {"detailStage", "save"}

\* a detail-stage response that contains the marker has been given as the answer
C4_Witness ==
  \E i \in Frames : /\ sends[i].branch = "hybrid"
                    /\ sends[i].pc = "save"
                    /\ sends[i].fullResponse = "detail_needs_detail"
                    /\ sends[i].nRetrievals = 1
                    /\ sends[i].nCompletions = 2

\* C5: in Hybrid mode, when the escalation retrieval returns no chunks, no second
\* completion call is issued and the answer of the question is the fixed message
\* 'Could not find specific details. The summary may be your best answer.'
C5_NoChunksNoSecondCall ==
  [][\A i \in Frames :
       (sends[i].branch = "hybrid" /\ sends[i].pc = "embed"
          /\ sends'[i].pc \in {"detailStage", "save"} /\ ~sends'[i].found) =>
         /\ sends'[i].pc = "save"
         /\ sends'[i].nCompletions = 1
         /\ sends'[i].shown = "no_details"]_vars

\* an escalated question has ended with the fixed message
C5_Witness ==
  \E i \in Frames : /\ sends[i].branch = "hybrid"
                    /\ sends[i].pc = "save"
                    /\ sends[i].nRetrievals = 1
                    /\ ~sends[i].found
                    /\ sends[i].shown = "no_details"

\* a step in which the interceptor honors a 429: it schedules its callback
HonoredStep == Len(timers') > Len(timers)

\* C6: a 429 is honored only if it belongs to the currently active request: one
\* that arrives for an earlier request, or for a document-setup call, never sets
\* isHandlingRateLimit, even if some other request is active when it arrives
C6_OnlyActiveRequest ==
  [][/\ \A i \in Frames :
          (sends[i].resp = "pending" /\ sends'[i].resp = "429" /\ HonoredStep) =>
            activeRequestId = ReqId(i)
     /\ ((sumTask = "running" /\ sumTask' = "429")
           \/ (ragTask = "running" /\ ragTask' = "429")) => ~HonoredStep]_vars

\* a prompt has been answered since the last honored detection
AnsweredSince == honoredAt > 0 /\ lastRateLimitTime = ResetCooldown

\* C7, as stated: between any two honored detections at least 3000 ms elapse,
\* whatever the user did in between
C7_CooldownAlways ==
  [][HonoredStep => now - honoredAt >= 3000]_vars

\* C7, amended: between two honored detections at least 3000 ms elapse unless a
\* switch prompt was confirmed or cancelled in between
C7_CooldownUnlessAnswered ==
  [][HonoredStep => (now - honoredAt >= 3000 \/ AnsweredSince)]_vars

\* two detections have been honored less than 3000 ms apart: the callbacks of
\* both are still pending
C7_Witness ==
  /\ Len(timers) = 2
  /\ timers[2] - timers[1] < 3000
  /\ honoredAt = timers[2] - PROMPT_DELAY
  /\ lastRateLimitTime = honoredAt

\* C8: while a detection is being handled no further detection is honored, and at
\* most one switch prompt is displayed at any time, whether the 429 is seen by
\* the interceptor or by the catch block of handleSend
C8_OnePrompt ==
  /\ prompts <= 1
  /\ isHandlingRateLimit => Len(timers) <= 1

C10_LastModelFinal ==
  [][currentModelIndex = ChainLength - 1 =>
       /\ prompts' <= prompts
       /\ currentModelIndex' = currentModelIndex
       /\ Len(timers') < Len(timers) => finals' = finals + 1
       /\ (\E i \in Frames : sends[i].resp = "429" /\ sends'[i].pc = "done"
                             /\ sends[i].pc # "done") => finals' = finals + 1
       /\ prompts' < prompts => /\ switches' = switches
                                /\ chain' = chain]_vars

\* at the last model a rate limit has been reported with the final message, and
\* a prompt left from before is still displayed
C10_Witness ==
  /\ currentModelIndex = ChainLength - 1
  /\ finals > 0
  /\ prompts > 0

\* a step in which a completion call is issued for the call i of handleSend
IssuesCompletion(i) ==
  /\ i \in DOMAIN sends'
  /\ sends'[i].nCompletions >= 1
  /\ (i \notin DOMAIN sends \/ sends'[i].nCompletions > sends[i].nCompletions)

\* C11: when a switch is confirmed and a next model exists the cursor advances by
\* exactly one, the chat chain is rebuilt with the new model before any new
\* completion call is issued, and a recorded failed question is taken for the
\* resubmission and lastFailedQuestion is cleared
C11_RebuiltBeforeNextCall ==
  [][/\ currentModelIndex' # currentModelIndex =>
          /\ currentModelIndex' = currentModelIndex + 1
          /\ Len(switches') = Len(switches) + 1
     /\ \A i \in 1..MaxSends :
          IssuesCompletion(i) => sends'[i].model = MODEL_FALLBACK_CHAIN[currentModelIndex]
     /\ \A h \in DOMAIN switches :
          (switches[h].pc = "getKey" /\ Len(switches') = Len(switches)
             /\ switches'[h].pc = "delay") => lastFailedQuestion' = Null]_vars

HitDone == ppc = "done" /\ bucket = "hit" /\ pageContent # NullObj

\* the entry the hit was served from: nothing is saved on the hit path
HitEntry == loadProcessingCache(cacheStore, currentTabId, currentPageUrl)

\* the strategy the cached entry alone would give
EntryMode(c) ==
  IF Truthy(c.summary) /\ c.vectorStore # NullObj THEN "hybrid"
  ELSE IF c.vectorStore # NullObj THEN "rag"
  ELSE "direct"

StoredEntry == cacheStore[CacheKey(currentTabId, currentPageUrl)]

\* a popup has just been opened on a document for which the storage holds an
\* entry with a summary and the index of this very document: the entry a
\* successful Hybrid run on it has saved
ReopenedAfterHybrid ==
  /\ ppc = "start"
  /\ pageContent # NullObj
  /\ StoredEntry # NullObj
  /\ Truthy(StoredEntry.summary)
  /\ StoredEntry.vectorStore = BuiltStore(pageContent.len)

StoredNow == ppc = "done" /\ pageContent # NullObj /\ StoredEntry # NullObj

\* C15, as stated: a tab's entry is superseded when the tab's URL changes: once
\* a document at another URL has been processed and stored in the tab, a load
\* for the earlier URL is a miss
C15_Superseded ==
  StoredNow =>
    \A u \in Urls \ {currentPageUrl} :
      loadProcessingCache(cacheStore, currentTabId, u) = NullObj

\* C15, amended: entries are kept per tab and URL: storing the entry of one URL
\* leaves the entry of every other URL of the tab, and of every other tab, as it
\* was, so a load for an earlier URL is still a hit
C15_EntriesKeptPerUrl ==
  [][cacheStore' # cacheStore =>
       /\ loadProcessingCache(cacheStore', currentTabId, currentPageUrl) # NullObj
       /\ \A t \in Tabs, u \in Urls :
            <<t, u>> # <<currentTabId, currentPageUrl>> =>
              loadProcessingCache(cacheStore', t, u)
                = loadProcessingCache(cacheStore, t, u)]_vars

\* a second URL has been processed and stored in a tab, and the entry of the
\* first URL is still loaded
C15_Witness ==
  /\ StoredNow
  /\ reopens > 0
  /\ \E u \in Urls \ {currentPageUrl} :
       /\ loadProcessingCache(cacheStore, currentTabId, u) # NullObj
       /\ loadProcessingCache(cacheStore, currentTabId, u).url = u

\* the last n messages of a conversation, in their order
LastMessages(h, n) == [k \in 1..n |-> h[Len(h) - n + k]]

\* C16: after every completed handleSend the history holds at most 20 messages,
\* and whenever more than 20 would exist it is exactly the 20 most recent ones
\* in their original order
C16_HistoryWindow ==
  /\ [](Len(chatHistory) <= 20)
  /\ [][/\ chatHistory' # chatHistory =>
             \E i \in DOMAIN sends : sends[i].pc # "save" /\ sends'[i].pc = "save"
        /\ \A i \in DOMAIN sends :
             (sends[i].pc # "save" /\ sends'[i].pc = "save") =>
               LET full == chatHistory
                             \o <<[role |-> "human", content |-> sends[i].q],
                                  [role |-> "ai", content |-> sends'[i].fullResponse]>>
               IN chatHistory' = IF Len(full) > 20 THEN LastMessages(full, 20)
                                 ELSE full]_vars

\* an exchange has been added to a conversation of 20 messages: the two oldest
\* are gone and the new exchange is at the end
C16_Witness ==
  /\ Len(chatHistory) = 20
  /\ chatHistory[1].content = "old3"
  /\ chatHistory[19].content = "q1"
  /\ \E i \in DOMAIN sends : sends[i].pc = "save"

\* summary generation has failed in the processing that has just returned
SummaryFailed == ppc = "done" /\ sumTask \in {"429", "error"}

\* C17: if summary generation fails while a document of either Hybrid bucket is
\* processed, the session falls back to Direct mode, with the direct chain, the
\* full document as context and the Direct indication, and processing completes
\* with a usable chain
C17_SummaryFailureGivesDirect ==
  (SummaryFailed /\ bucket \in {"B", "C"}) =>
    /\ chain # NullObj
    /\ chain.prompt = "stuffing"
    /\ modeBadge = "stuffing"
    /\ SendBranch = "direct"

\* ---- C18 ----
\* the chunks whose embedQuery call of the last build failed
FailedChunks == {i \in DOMAIN embedCalls : embedCalls[i] # "ok"}

\* C18: when the embedding call of one chunk fails during an index build, only
\* that chunk is lost: the build ends with an index of the remaining chunks.
C18_OneFailureKeepsIndex ==
  (Ended(ragTask) /\ Cardinality(FailedChunks) = 1)
    => /\ vectorStore # NullObj
       /\ Len(vectorStore.chunks) = NChunks - 1
       /\ Len(vectorStore.embeddings) = NChunks - 1

\* ---- C19 ----
\* the index in the store of a chunk text (the texts of an index differ)
IndexOfChunk(text) == CHOOSE i \in 1..Len(vectorStore.chunks) : vectorStore.chunks[i] = text

\* the similarity of the chunk at an index to the query of the last call
ScoreAt(i) == cosineSimilarity(retrieved.queryEmbedding, vectorStore.embeddings[i])

\* the indexes of the chunks the last call returned, in the order returned
ReturnedIndexes == [j \in 1..Len(retrieved.chunks) |-> IndexOfChunk(retrieved.chunks[j])]

\* C19: retrieveRelevantChunks(query, k, threshold) returns at most k chunk
\* texts, all of the index, each of similarity >= threshold to the query, by
\* descending similarity with ties in chunk order, and no chunk left out is
\* strictly more similar than a chunk returned.
C19_TopKByScore ==
  retrieved # NullObj =>
    LET r == retrieved.chunks
        at == ReturnedIndexes
    IN /\ Len(r) <= retrieved.k
       /\ \A j \in 1..Len(r) : \E i \in 1..Len(vectorStore.chunks) : vectorStore.chunks[i] = r[j]
       /\ \A j \in 1..Len(r) : ScoreAt(at[j]) >= retrieved.scoreThreshold
       /\ \A j \in 1..Len(r), l \in 1..Len(r) :
            j < l => \/ ScoreAt(at[j]) > ScoreAt(at[l])
                     \/ ScoreAt(at[j]) = ScoreAt(at[l]) /\ at[j] < at[l]
       /\ \A i \in 1..Len(vectorStore.chunks) :
            (\A j \in 1..Len(r) : at[j] # i)
              => \A j \in 1..Len(r) : ScoreAt(i) <= ScoreAt(at[j])

\* a call returned two chunks out of chunk order, the first more similar than
\* the second, and left out a chunk that met the threshold
C19_Witness ==
  /\ retrieved # NullObj
  /\ retrieved.k = 2
  /\ Len(retrieved.chunks) = 2
  /\ ReturnedIndexes[1] > ReturnedIndexes[2]
  /\ ScoreAt(ReturnedIndexes[1]) > ScoreAt(ReturnedIndexes[2])
  /\ \E i \in 1..Len(vectorStore.chunks) :
       /\ i \notin {ReturnedIndexes[1], ReturnedIndexes[2]}
       /\ ScoreAt(i) >= retrieved.scoreThreshold
       /\ vectorStore.embeddings[i].kind = "array"
       /\ Len(vectorStore.embeddings[i].values) = Len(retrieved.queryEmbedding.values)

\* ---- C20 ----
\* the embedding stored at an index is missing, no array, empty, or of another
\* dimension than the query's embedding
InvalidAt(i) ==
  LET embedding == vectorStore.embeddings[i]
  IN \/ embedding.kind # "array"
     \/ Len(embedding.values) = 0
     \/ Len(embedding.values) # Len(retrieved.queryEmbedding.values)

\* the last call embedded its query and went on to score the index
Scored ==
  /\ retrieved # NullObj
  /\ retrieved.queryEmbedding.kind = "array"
  /\ Len(retrieved.queryEmbedding.values) > 0

\* C20: whatever the threshold, a chunk whose stored embedding is invalid is
\* not among the chunks returned, and it takes no place from a valid chunk
\* that meets the threshold: such a chunk is left out only when k valid chunks
\* are returned.
C20_InvalidNeverReturned ==
  Scored =>
    /\ \A j \in 1..Len(retrieved.chunks) : ~InvalidAt(ReturnedIndexes[j])
    /\ \A i \in 1..Len(vectorStore.chunks) :
         (/\ ~InvalidAt(i)
          /\ ScoreAt(i) >= retrieved.scoreThreshold
          /\ \A j \in 1..Len(retrieved.chunks) : ReturnedIndexes[j] # i)
           => Cardinality({j \in 1..Len(retrieved.chunks) :
                             ~InvalidAt(ReturnedIndexes[j])}) = retrieved.k

\* ---- C21 ----
\* the document is a short one: fewer than 10000 estimated tokens
ShortDocument ==
  pageContent # NullObj /\ pageContent.len < CHARS_PER_TOKEN * DIRECT_LIMIT

\* C21: a question answered in Direct or in pure retrieval mode issues exactly
\* one completion call; for a document under 10000 tokens and an empty cache,
\* processing and answering issue no summary call and no embedding call.
C21_OneCompletionNoSetupCalls ==
  /\ \A i \in DOMAIN sends :
       sends[i].branch \in {"direct", "rag"} =>
         /\ sends[i].nCompletions <= 1
         /\ sends[i].pc = "save" => sends[i].nCompletions = 1
  /\ ShortDocument =>
       /\ nSummaryCalls = 0
       /\ nIndexBuilds = 0
       /\ sumTask = "idle" /\ ragTask = "idle"
       /\ \A i \in DOMAIN sends :
            sends[i].nRetrievals = 0 /\ sends[i].model # "embedding"

\* a question on a short document has been answered
C21_Witness ==
  /\ ShortDocument
  /\ \E i \in DOMAIN sends :
       sends[i].pc = "save" /\ sends[i].branch = "direct" /\ sends[i].nCompletions = 1

\* ---- C22 ----
\* the kind of a failure by the documented precedence, from the marks of its
\* message
KindByPrecedence(marks) ==
  CASE "429" \in marks -> "RateLimited"
    [] "429" \notin marks /\ "503" \in marks -> "ServiceUnavailable"
    [] {"429", "503"} \cap marks = {} /\ "500" \in marks -> "ServerError"
    [] {"429", "503", "500"} \cap marks = {} /\ "401" \in marks -> "InvalidCredential"
    [] {"429", "503", "500", "401"} \cap marks = {} /\ "Failed to fetch" \in marks
         -> "NetworkError"
    [] OTHER -> "Other"

\* call i runs its catch block in this step
Caught(i) ==
  /\ i \in DOMAIN sends
  /\ sends[i].pc \in {"summaryStage", "detailStage", "single"}
  /\ sends[i].resp \notin {"pending", "none", "200"}
  /\ sends'[i].pc = "done"

\* C22: a failure caught by handleSend is of one kind, by the precedence rate
\* limit, service unavailable, server error, invalid credential, network
\* error, other.  Only a rate limit shows a switch prompt (or the final
\* message) and keeps the question for a resubmission; every other kind puts
\* its error message on the page, starts no call and changes no model.
C22_ClassifiedOnce ==
  [][\A i \in 1..MaxSends :
       Caught(i) =>
         LET kind == KindByPrecedence(Markers(sends[i].resp))
         IN IF kind = "RateLimited"
            THEN /\ lastFailedQuestion' = sends[i].q
                 /\ prompts' + finals' = prompts + finals + 1
                 /\ errorShown' = errorShown
            ELSE /\ errorShown' = kind
                 /\ UNCHANGED <<prompts, finals, lastFailedQuestion, currentModelIndex,
                                chain, switches>>
                 /\ Len(sends') = Len(sends)
                 /\ \A j \in DOMAIN sends : j # i => sends'[j] = sends[j]]_vars

\* a call has failed and returned with the message of a server error on the
\* page, no prompt shown and the first model still in use
C22_Witness ==
  /\ errorShown = "ServerError"
  /\ prompts = 0 /\ finals = 0
  /\ currentModelIndex = 0
  /\ \E i \in DOMAIN sends : sends[i].pc = "done"

\* ---- C23 ----
\* a provider call is issued in this step: a handleSend call starts its first
\* call, or goes on to a further one
IssuesProviderCall ==
  \/ Len(sends') > Len(sends)
  \/ \E i \in DOMAIN sends :
       sends'[i].nCompletions + sends'[i].nRetrievals
         > sends[i].nCompletions + sends[i].nRetrievals

\* C23: once a provider call has failed for an invalid credential, the session
\* issues no provider call; the key is replaced by handleSaveKey only, whose
\* section is hidden in a popup that has a key.
C23_NoCallAfterInvalidCredential ==
  [][errorShown = "InvalidCredential" => ~IssuesProviderCall]_vars

\* ---- C24 ----
\* C24: every chat-type provider call is issued against the model at the
\* cursor: the call of generateSummary, and every completion call of a
\* question (summary stage, detail stage or single call), also after a switch.
C24_CallsUseCursorModel ==
  [][/\ (sumTask # "running" /\ sumTask' = "running")
          => SummaryModel = MODEL_FALLBACK_CHAIN[currentModelIndex']
     /\ \A i \in 1..MaxSends :
          IssuesCompletion(i) => sends'[i].model = MODEL_FALLBACK_CHAIN[currentModelIndex']]_vars

\* ---- C25 ----
\* the cache holds no entry for the page of the popup
NoEntryYet == cacheStore[CacheKey(currentTabId, currentPageUrl)] = NullObj

\* the step shows the Hybrid badge
HybridEntered == modeBadge' = "hybrid"

\* what Hybrid mode rests on in the next state: flag, both results, chain, and
\* the entry written
HybridFinalized ==
  /\ useHybridMode' /\ Truthy(documentSummary') /\ vectorStore' # NullObj
  /\ chain' # NullObj /\ chain'.prompt = "hybrid"
  /\ cacheStore'[CacheKey(currentTabId, currentPageUrl)] # NullObj

\* C25: in both Hybrid buckets the summary call and the index build are
\* started together, neither awaiting the other; the mode is finalized (chain
\* built, cache written) only after both have ended; and Hybrid mode is
\* entered if and only if both gave a result.
C25_JoinedBuilds ==
  /\ [](bucket \in {"B", "C"} /\ (sumTask = "running" \/ ragTask = "running")
          => chain = NullObj /\ NoEntryYet /\ ppc # "done")
  /\ [][/\ (sumTask = "idle" /\ sumTask' = "running")
             => ragTask = "idle" /\ ragTask' = "running" /\ bucket' \in {"B", "C"}
        /\ (bucket' \in {"B", "C"} /\ ragTask = "idle" /\ ragTask' = "running")
             => sumTask = "idle" /\ sumTask' = "running"
        /\ (ppc = "join" /\ ppc' \in {"done", "index"})
             => /\ Ended(sumTask) /\ Ended(ragTask)
                /\ HybridEntered <=> (sumTask = "ok" /\ ragTask = "ok")
                /\ HybridEntered => HybridFinalized]_vars

\* a Hybrid bucket has been finalized as Hybrid after both builds gave a
\* result
C25_Witness ==
  /\ bucket \in {"B", "C"}
  /\ ppc = "done"
  /\ sumTask = "ok" /\ ragTask = "ok"
  /\ modeBadge = "hybrid"
  /\ ~NoEntryYet

\* ---- C26 ----
\* the tab is closed by the step
Closes(tabId) == tabId \in openTabs /\ tabId \notin openTabs'

ZeroMagnitude(vec) == IsArray(vec) /\ \A i \in 1..Len(vec.values) : vec.values[i] = 0

\* C27: cosineSimilarity never throws, and it returns exactly 0 when either
\* vector has zero magnitude, when the two vectors differ in length, or when
\* either argument is missing or not an array.
C27_SimilarityZeroCases ==
  (lastCall # NullObj /\ lastCall.fn = "cosineSimilarity") =>
    /\ ~lastCall.outcome.thrown
    /\ (\/ ~IsArray(lastCall.vecA) \/ ~IsArray(lastCall.vecB)
        \/ Len(lastCall.vecA.values) # Len(lastCall.vecB.values)
        \/ ZeroMagnitude(lastCall.vecA) \/ ZeroMagnitude(lastCall.vecB))
         => lastCall.outcome.value = 0

\* the function has been called on a vector of zero magnitude and a vector of
\* the same length that has a magnitude
C27_Witness ==
  /\ lastCall # NullObj /\ lastCall.fn = "cosineSimilarity"
  /\ lastCall.vecA = Vector(<<0, 0>>)
  /\ lastCall.vecB = Vector(<<3, 4>>)
  /\ lastCall.outcome = Returns(0)

\* ---- C29 ----
\* the call recorded is one of getOptimalChunkConfig
ConfigCall(call) == call # NullObj /\ call.fn = "getOptimalChunkConfig"

\* the chunk sizes of the retrieval policy
RetrievalBands == {500, 800, 1200, 1800, 2500}

\* the overlap lies between 10% and 20% of the chunk size
OverlapInRange(config) ==
  /\ 10 * config.chunkSize <= 100 * config.chunkOverlap
  /\ 100 * config.chunkOverlap <= 20 * config.chunkSize

\* C29: in both policies getOptimalChunkConfig returns an overlap between 10%
\* and 20% of the chunk size it returns; in the retrieval policy the chunk
\* size is one of 500, 800, 1200, 1800, 2500, and of two calls the one on the
\* longer document returns a chunk size at least as large and an overlap
\* fraction at most as large.
C29_ChunkConfigBands ==
  /\ [](ConfigCall(lastCall) =>
          /\ OverlapInRange(lastCall.outcome)
          /\ ~lastCall.useLargeChunks => lastCall.outcome.chunkSize \in RetrievalBands)
  /\ [][(/\ ConfigCall(lastCall) /\ ConfigCall(lastCall')
         /\ ~lastCall.useLargeChunks /\ ~lastCall'.useLargeChunks
         /\ lastCall.documentLength <= lastCall'.documentLength)
          => /\ lastCall.outcome.chunkSize <= lastCall'.outcome.chunkSize
             /\ lastCall'.outcome.chunkOverlap * lastCall.outcome.chunkSize
                  <= lastCall.outcome.chunkOverlap * lastCall'.outcome.chunkSize]_vars

\* the retrieval policy has been applied to a document of the last band: the
\* largest chunks, with the smallest overlap fraction
C29_Witness ==
  /\ ConfigCall(lastCall)
  /\ ~lastCall.useLargeChunks
  /\ lastCall.documentLength >= 200000
  /\ lastCall.outcome = [chunkSize |-> 2500, chunkOverlap |-> 250]

\* ---- C30 ----
\* the branch of handleSend a popup takes after it has restored the entry for
\* a document of that length (content.js 1280-1323, 2040-2202)
WarmBranch(len, entry) ==
  LET summary == IF Truthy(entry.summary) THEN entry.summary ELSE Null
      m == RestoreMode(len, summary, entry.vectorStore)
  IN IF m.hybrid /\ Truthy(summary) /\ entry.vectorStore # NullObj THEN "hybrid"
     ELSE IF m.long /\ entry.vectorStore # NullObj THEN "rag"
     ELSE "direct"

\* the step is one of a cold load that writes the entry of its page
WritesEntry ==
  /\ pageContent # NullObj
  /\ bucket' \in {"B", "C", "D"}
  /\ StoredEntry' # NullObj
  /\ StoredEntry' # StoredEntry

\* C30: for the same document and URL, the branch of handleSend in effect
\* after a warm load of a cache entry is the branch the cold load was answering
\* with when it wrote the entry.
C30_WarmSameAsCold ==
  [][WritesEntry => WarmBranch(pageContent.len, StoredEntry') = SendBranch']_vars

\* ---- C31 ----
\* the strategy a chain's system prompt or a mode badge denotes, named as the
\* branches of handleSend are
StrategyOf(name) == IF name = "stuffing" THEN "direct" ELSE name

\* how many of the three mode flags are true
FlagsSet == Cardinality({f \in {"hybrid", "long", "summary"} :
                           \/ f = "hybrid" /\ useHybridMode
                           \/ f = "long" /\ isLongDocument
                           \/ f = "summary" /\ useSummaryMode})

\* C31: whenever processPageContent has completed and built a chain, the
\* chain's system prompt, the mode badge and the branch handleSend will take
\* denote the same strategy, and at most one of useHybridMode, isLongDocument
\* and useSummaryMode is true; also after a failed summary or index build.
C31_OneStrategy ==
  (ppc = "done" /\ chain # NullObj) =>
    /\ StrategyOf(chain.prompt) = SendBranch
    /\ StrategyOf(modeBadge) = SendBranch
    /\ FlagsSet <= 1

\* ---- C32 ----
\* the resubmissions of the question: the handleSend calls after the first,
\* and the Switch handlers that hold the question for their call
Resubmissions ==
  (IF Len(sends) > 0 THEN Len(sends) - 1 ELSE 0)
    + Cardinality({h \in DOMAIN switches : switches[h].pc = "delay"})

\* C32: a single rate-limited question, whose 429 is seen by the fetch
\* interceptor and by the catch block of handleSend, makes the model cursor
\* advance by at most one and is resubmitted at most once.
C32_OneSwitchPerLimit ==
  /\ currentModelIndex <= 1
  /\ Resubmissions <= 1

\* ---- C33 ----
\* C33: activeRequestId is non-null exactly while a handleSend call is between
\* its start and its finally block.
C33_ActiveIffInFlight == (activeRequestId # Null) <=> InFlight # {}

\* ---- C34 ----
\* call i leaves handleSend by its catch block in this step: a completion
\* call of one of its stages has failed
FailsNow(i) ==
  /\ sends[i].pc \in {"summaryStage", "detailStage", "single"}
  /\ sends[i].resp \notin {"pending", "none", "200"}
  /\ sends'[i].pc = "done"

\* the conversation the session storage holds for the tab of the popup
PersistedHistory == cacheStore[HistoryKey(currentTabId)]

\* C34: if a question fails with a provider error, in the summary stage, in
\* the detail stage or in a single-call mode, the conversation history in
\* memory and the persisted history are left as they were: no user turn and
\* no assistant turn is added.
C34_FailureKeepsHistory ==
  [][\A i \in DOMAIN sends :
       FailsNow(i) => /\ chatHistory' = chatHistory
                      /\ PersistedHistory' = PersistedHistory]_vars

\* in Hybrid mode a question has been answered and saved and another has
\* failed with a provider error: the history is the one exchange
C34_Witness ==
  /\ Len(sends) = 2
  /\ sends[1].pc = "done" /\ sends[2].pc = "done"
  /\ errorShown # Null
  /\ Len(chatHistory) = 2
  /\ PersistedHistory = [messages |-> chatHistory]
  /\ useHybridMode

\* ---- C35 ----
\* call i has its answer in this step: the history is pushed
AnswersNow(i) == sends[i].pc # "save" /\ sends'[i].pc = "save"

\* C35: for every successfully answered question, the assistant turn appended
\* to the conversation history is exactly the final text shown for that
\* question: after an escalation the detail-stage output or the fixed
\* no-details message, never the summary-stage text with the marker.
C35_HistoryHoldsShownAnswer ==
  [][\A i \in DOMAIN sends :
       AnswersNow(i) =>
         chatHistory'[Len(chatHistory')] = [role |-> "ai", content |-> sends'[i].shown]]_vars

\* ---- C36 ----
\* C36: whenever isHandlingRateLimit is true, a switch prompt is scheduled or
\* displayed, whose buttons reset the flag: the flag is never left true with
\* no prompt to answer.
C36_FlagHasPrompt == isHandlingRateLimit => (timers # <<>> \/ prompts > 0)

\* ---- C37 ----
\* the step starts a summary call or an index build
StartsSetupCall == nSummaryCalls' > nSummaryCalls \/ nIndexBuilds' > nIndexBuilds

\* the step changes the session storage
StorageWritten == cacheStore' # cacheStore

\* C37: the cache is read before any summary or embedding call is made for a
\* document, so that no such call is made when it holds an entry with an index
\* for the page; a cache entry is written only after the index was built
\* successfully, and an entry with a summary only after the summary was also
\* produced; a Direct document never writes a cache entry.
C37_ReadFirstWriteAfterBuild ==
  /\ [](bucket = "hit" => nSummaryCalls = 0 /\ nIndexBuilds = 0)
  /\ [](bucket = "A" => StoredEntry = NullObj)
  /\ [][/\ StartsSetupCall => (StoredEntry = NullObj \/ StoredEntry.vectorStore = NullObj)
        /\ StorageWritten =>
             /\ bucket \in {"B", "C", "D"}
             /\ ragTask = "ok"
             /\ vectorStore # NullObj
             /\ StoredEntry' = CacheData(StoredEntry'.summary, vectorStore, currentPageUrl)
             /\ Truthy(StoredEntry'.summary) =>
                  (sumTask = "ok" /\ StoredEntry'.summary = documentSummary)
             /\ \A k \in DOMAIN cacheStore :
                  k # CacheKey(currentTabId, currentPageUrl) => cacheStore'[k] = cacheStore[k]]_vars

\* a retrieval-only entry has been written after the one index build of a
\* document of the last bucket
C37_Witness ==
  /\ bucket = "D"
  /\ ppc = "done"
  /\ ragTask = "ok"
  /\ nIndexBuilds = 1
  /\ StoredEntry = CacheData(Null, vectorStore, currentPageUrl)

\* ---- C38 ----
\* C38: during one processing of a document the index build, which embeds
\* every chunk, runs at most once, whichever of the summary generation and
\* the index build succeed or fail.
C38_OneIndexBuild == nIndexBuilds <= 1

\* ---- C39 ----
\* the call recorded is one of truncateMarkdownSafely
TruncateCall(call) == call # NullObj /\ call.fn = "truncateMarkdownSafely"

\* the length of the first k chunks, each followed by its separator
RECURSIVE TakenLength(_, _)
TakenLength(chunks, k) ==
  IF k = 0 THEN 0 ELSE TakenLength(chunks, k - 1) + chunks[k] + CHUNK_SEPARATOR

\* the chunks taken in full are the longest prefix in which every chunk fitted
\* the budget left when its turn came
GreedyPrefix(chunks, k, maxChars) ==
  /\ k \in 0..Len(chunks)
  /\ \A j \in 1..k : TakenLength(chunks, j - 1) + chunks[j] <= maxChars
  /\ k < Len(chunks) => TakenLength(chunks, k) + chunks[k + 1] > maxChars

\* C39: truncateMarkdownSafely(text, maxChars) returns the text unchanged when
\* its length is at most maxChars; otherwise whole chunks are taken greedily in
\* order, a partial last chunk is added only if the budget that remains
\* exceeds 500 characters, the body assembled before the truncation marker is
\* at most maxChars long, and the result ends with the truncation marker.
C39_TruncationWithinLimit ==
  TruncateCall(lastCall) =>
    LET out == lastCall.outcome
        chunks == lastCall.chunks
        maxChars == lastCall.maxChars
    IN IF lastCall.markdownLength <= maxChars
       THEN out.marker = "none" /\ out.body = lastCall.markdownLength
       ELSE /\ out.marker # "none"
            /\ out.body <= maxChars
            /\ out.marker = "boundary" =>
                 /\ GreedyPrefix(chunks, out.whole, maxChars)
                 /\ out.partial > 0 =>
                      maxChars - TakenLength(chunks, out.whole) > PARTIAL_FLOOR
                 /\ out.body = TakenLength(chunks, out.whole) + out.partial

====
